---------------------------- MODULE Spec2Model ----------------------------
(***************************************************************************)
(* A model of dmorph (github.com/AlphaOne1/dmorph): Morpher.Run, the       *)
(* consistency check of the applied history and the transactional apply    *)
(* loop, run any number of times against one database.                     *)
(*                                                                         *)
(* Strings are sequences of character codes, compared as Go compares       *)
(* strings (bytewise lexicographic). An error value is the sequence of the *)
(* errors joined in it; the nil error is the empty sequence.                *)
(***************************************************************************)
EXTENDS Integers, Sequences, FiniteSets

VARIABLES
    Dialect,            \* Morpher.Dialect: TRUE when non-nil
    Migrations,         \* Morpher.Migrations: the keys of the migrations, in slice order
    TableName,          \* Morpher.TableName
    Log,                \* Morpher.Log: "default" or "nil"
    ctxErr,             \* ctx.Err() # nil: the context of the current Run is cancelled
    rows,               \* the committed rows of the migration table, by create_ts
    effects,            \* the committed statements of migrations: <<key, statement number>>
    tx,                 \* the transaction of runOneMigration
    pc,                 \* where the current Run is
    appliedMigrations,  \* Run's local appliedMigrations
    lastMigration,      \* Run's local lastMigration, the argument of applyMigrations
    idx,                \* position of applyMigrations' range loop in Migrations
    err,                \* the error Run returned
    pendErr,            \* the error of the failed call, before it is joined with the rollback's
    begun,              \* history: keys for which db.BeginTx was called in this Run
    rows0,              \* history: rows when this Run was called
    prevMigrations,     \* history: Migrations of the Run before this one when it returned nil
                        \* and the database was not written in between, else <<>>
    calls,              \* history: the calls on the transaction of the migration last begun,
                        \* each <<name, whether it returned nil>>
    reordered,          \* history: the sort of this Run changed the order of Migrations
    dialectCalls,       \* history: the Dialect operations this Run has called, in order
    options,            \* the options the program gives to NewMorpher or to the package's Run
    built,              \* what NewMorpher returned: a Morpher or an error
    tableExists,        \* the migration table exists in the database
    ensure,             \* history: the EnsureMigrationTableExists of this Run, its
                        \* transaction and its error
    reader,             \* applyStepsStream: the lines its reader r delivers
    migrationID,        \* applyStepsStream: its migrationID
    logger,             \* applyStepsStream: its log, "default" or "nil"
    scanned,            \* applyStepsStream: the number of lines scanner.Scan() has delivered
    buf,                \* applyStepsStream: the text in buf
    newStep,            \* applyStepsStream: newStep
    step,               \* applyStepsStream: step
    executed,           \* history: the texts given to tx.ExecContext, in order, each with
                        \* whether it returned nil
    acc,                \* history: the lines written to buf since it was last reset
    spc,                \* where applyStepsStream is
    serr,               \* the error applyStepsStream returned
    cmp,                \* migrationOrder: the migrations' keys it is called with, and
                        \* what it returned
    migrationSet,       \* two Runs: the migrations both Morphers are configured with
    runners,            \* two Runs: for each of them the Morpher's Migrations, where the
                        \* Run is, its local variables and its transaction
    history,            \* two Runs: the rows of the migration table, each with the Run
                        \* that committed it
    visible             \* two Runs: the committed effects of migrations, each with its
                        \* key and the Run that committed it

vars == <<Dialect, Migrations, TableName, Log, ctxErr, rows, effects, tx, pc,
          appliedMigrations, lastMigration, idx, err, pendErr, begun, rows0,
          prevMigrations, calls, reordered, dialectCalls, options, built,
          tableExists, ensure,
          reader, migrationID, logger, scanned, buf, newStep, step, executed, acc, spc, serr,
          cmp, migrationSet, runners, history, visible>>

\* The variables of Run, of NewMorpher and of the database.
runVars == <<Dialect, Migrations, TableName, Log, ctxErr, rows, effects, tx, pc,
             appliedMigrations, lastMigration, idx, err, pendErr, begun, rows0,
             prevMigrations, calls, reordered, dialectCalls, options, built,
             tableExists, ensure>>

\* The variables of applyStepsStream.
streamVars == <<reader, migrationID, logger, scanned, buf, newStep, step, executed, acc, spc, serr>>

(***************************************************************************)
(* Bounds.                                                                 *)
(***************************************************************************)
\* the longest Migrations slice a Morpher is configured with
MaxMigs == 2
\* the number of statements a migration executes in its transaction
MaxStmts == 2

\* The keys migrations are drawn from: "", "ab", "b" (a = 1, b = 2).
Keys == {<<>>, <<1, 2>>, <<2>>}

\* Characters of table names: a letter, a digit, the underscore, and ';'.
ValidNameChars == {1, 2, 3}
\* The table names a Morpher is given: "m", "" and "m;".
TableNames == {<<1>>, <<>>, <<1, 9>>}

Range(s) == {s[i] : i \in 1..Len(s)}

NoTx == [state |-> "none", key |-> <<>>, stmts |-> 0, reg |-> FALSE]


(***************************************************************************)
(* Strings and the order of migrations.                                    *)
(***************************************************************************)
Min(a, b) == IF a < b THEN a ELSE b

\* Go's a < b on strings: the first differing byte decides, a proper prefix is less.
StrLess(a, b) ==
    \E i \in 1..(Min(Len(a), Len(b)) + 1) :
        /\ \A j \in 1..(i - 1) : a[j] = b[j]
        /\ \/ i > Len(a) /\ i <= Len(b)
           \/ i <= Len(a) /\ i <= Len(b) /\ a[i] < b[i]

\* A mutant of migrationOrder: the shorter key comes first.
migrationOrderByLength(m, n) ==
    IF Len(m) < Len(n) \/ (Len(m) = Len(n) /\ StrLess(m, n)) THEN -1
    ELSE IF Len(n) < Len(m) \/ (Len(m) = Len(n) /\ StrLess(n, m)) THEN 1
    ELSE 0

\* migrationOrder(m, n) on the migrations' keys.
migrationOrder(m, n) ==
    IF StrLess(m, n) THEN -1
    ELSE IF StrLess(n, m) THEN 1
    ELSE 0

\* One insertion step of the sort: k goes before the first element it is less than.
RECURSIVE Insert(_, _)
Insert(k, s) ==
    IF s = <<>> THEN <<k>>
    ELSE IF migrationOrder(k, Head(s)) < 0 THEN <<k>> \o s
    ELSE <<Head(s)>> \o Insert(k, Tail(s))

RECURSIVE SortedBy(_)
SortedBy(s) == IF s = <<>> THEN <<>> ELSE Insert(Head(s), SortedBy(Tail(s)))

\* A mutant of SortFunc: when the last two migrations have the same key, one of
\* them is dropped.
SortFuncCompact(s) ==
    IF Len(s) >= 2 /\ SortedBy(s)[Len(s)] = SortedBy(s)[Len(s) - 1]
    THEN SubSeq(SortedBy(s), 1, Len(s) - 1)
    ELSE SortedBy(s)

\* A mutant of SortFunc: the slice is left in the order the options gave.
SortFuncNone(s) == s

\* A mutant of SortFunc: the migrations are sorted in descending order.
SortFuncDescending(s) == [i \in 1..Len(s) |-> SortedBy(s)[Len(s) + 1 - i]]

\* slices.SortFunc(m.Migrations, migrationOrder); migrations with equal keys are
\* indistinguishable here, so the sort's instability does not show.
SortFunc(s) == SortedBy(s)

\* slices.IsSorted(appliedMigrations)
IsSorted(s) == \A i \in 1..(Len(s) - 1) : ~StrLess(s[i + 1], s[i])

\* ValidTableNameRex.MatchString(name): ^[a-zA-Z0-9_]+$
ValidTableNameRex(name) ==
    Len(name) >= 1 /\ \A i \in 1..Len(name) : name[i] \in ValidNameChars

\* A mutant of IsValid: the table name is checked before the dialect and the migrations.
IsValidTableNameFirst(d, ms, tn) ==
    IF Len(tn) < 1 THEN <<"ErrNoMigrationTable">>
    ELSE IF ~ValidTableNameRex(tn) THEN <<"ErrMigrationTableNameInvalid">>
    ELSE IF ~d THEN <<"ErrNoDialect">>
    ELSE IF Len(ms) < 1 THEN <<"ErrNoMigrations">>
    ELSE <<>>

\* A mutant of IsValid: the table name is not matched against the allow-list.
IsValidNoNameCheck(d, ms, tn) ==
    IF ~d THEN <<"ErrNoDialect">>
    ELSE IF Len(ms) < 1 THEN <<"ErrNoMigrations">>
    ELSE IF Len(tn) < 1 THEN <<"ErrNoMigrationTable">>
    ELSE <<>>

\* Morpher.IsValid
IsValid(d, ms, tn) ==
    IF ~d THEN <<"ErrNoDialect">>
    ELSE IF Len(ms) < 1 THEN <<"ErrNoMigrations">>
    ELSE IF Len(tn) < 1 THEN <<"ErrNoMigrationTable">>
    ELSE IF ~ValidTableNameRex(tn) THEN <<"ErrMigrationTableNameInvalid">>
    ELSE <<>>


(***************************************************************************)
(* Construction: the functional options and NewMorpher.                    *)
(***************************************************************************)
\* the longest list of options given to NewMorpher or to the package's Run
MaxOpts == 3

\* MigrationTableName, the default table name "migrations": ten letters.
MigrationTableName == [i \in 1..10 |-> 1]

\* A Morpher value.
Morpher(d, ms, tn, lg) == [Dialect |-> d, Migrations |-> ms, TableName |-> tn, Log |-> lg]

\* The Morpher NewMorpher starts from: the default table name and slog.Default().
NewMorpherStart == Morpher(FALSE, <<>>, MigrationTableName, "default")

\* An option is the function its constructor returned, here the constructor's
\* name and arguments.
NoOption ==
    [opt |-> "", dialect |-> FALSE, migrations |-> <<>>, log |-> "default",
     tableName |-> <<>>, readErr |-> FALSE]

WithDialect(dialect) == [NoOption EXCEPT !.opt = "WithDialect", !.dialect = dialect]

WithMigrations(migrations) ==
    [NoOption EXCEPT !.opt = "WithMigrations", !.migrations = migrations]

WithLog(log) == [NoOption EXCEPT !.opt = "WithLog", !.log = log]

WithTableName(tableName) == [NoOption EXCEPT !.opt = "WithTableName", !.tableName = tableName]

\* WithMigrationsFromFS(d): whether fs.ReadDir(d, ".") fails, and the names of the
\* regular .sql files of d.
WithMigrationsFromFS(readErr, entries) ==
    [NoOption EXCEPT !.opt = "WithMigrationsFromFS", !.readErr = readErr,
                     !.migrations = entries]

\* The options a program gives.
Options ==
    {WithDialect(TRUE), WithDialect(FALSE),
     WithMigrations(<<<<2>>>>),
     WithLog("nil"),
     WithTableName(<<1>>), WithTableName(<<>>), WithTableName(<<1, 9>>),
     WithMigrationsFromFS(FALSE, <<<<1, 2>>>>), WithMigrationsFromFS(TRUE, <<>>)}

\* The migrations an option list asks for.
RECURSIVE OptionMigrations(_)
OptionMigrations(os) ==
    IF os = <<>> THEN <<>> ELSE Head(os).migrations \o OptionMigrations(Tail(os))

\* The option lists of at most MaxOpts options and at most MaxMigs migrations.
OptionLists ==
    {os \in UNION {[1..n -> Options] : n \in 0..MaxOpts} :
        Len(OptionMigrations(os)) <= MaxMigs}

\* The call option(morpher) of one option: the Morpher after it, its error, and
\* whether it panicked (WithMigrationsFromFS logs every entry it finds, and a nil
\* logger panics there).
ApplyOption(o, m) ==
    CASE o.opt = "WithDialect" ->
            [m |-> [m EXCEPT !.Dialect = o.dialect], err |-> <<>>, panic |-> FALSE]
      [] o.opt = "WithMigrations" ->
            [m |-> [m EXCEPT !.Migrations = m.Migrations \o o.migrations],
             err |-> <<>>, panic |-> FALSE]
      [] o.opt = "WithLog" ->
            [m |-> [m EXCEPT !.Log = o.log], err |-> <<>>, panic |-> FALSE]
      [] o.opt = "WithTableName" ->
            IF Len(o.tableName) < 1 \/ ~ValidTableNameRex(o.tableName)
            THEN [m |-> m, err |-> <<"ErrMigrationTableNameInvalid">>, panic |-> FALSE]
            ELSE [m |-> [m EXCEPT !.TableName = o.tableName], err |-> <<>>, panic |-> FALSE]
      [] o.opt = "WithMigrationsFromFS" ->
            IF o.readErr
            THEN [m |-> m, err |-> <<"could not read directory">>, panic |-> FALSE]
            ELSE IF m.Log = "nil" /\ o.migrations # <<>>
            THEN [m |-> m, err |-> <<>>, panic |-> TRUE]
            ELSE [m |-> [m EXCEPT !.Migrations = m.Migrations \o o.migrations],
                  err |-> <<>>, panic |-> FALSE]

\* What NewMorpher hands back: the Morpher it returned (none with an error), its
\* error, and of its run the Morpher it worked on and the number of options it
\* applied without error.
Result(state, m, e, inner, n) ==
    [state |-> state, m |-> m, err |-> e, inner |-> inner, applied |-> n]

\* No NewMorpher was called.
NoBuilt == Result("none", Morpher(FALSE, <<>>, <<>>, "default"), <<>>,
                  Morpher(FALSE, <<>>, <<>>, "default"), 0)

\* A mutant of NewMorpherFrom: after an option that fails the later options are
\* applied all the same, and the error is returned after them.
RECURSIVE NewMorpherFromAppliesAll(_, _, _)
NewMorpherFromAppliesAll(morpher, os, n) ==
    IF os = <<>>
    THEN IF IsValid(morpher.Dialect, morpher.Migrations, morpher.TableName) # <<>>
         THEN Result("error", NoBuilt.m,
                     IsValid(morpher.Dialect, morpher.Migrations, morpher.TableName),
                     morpher, n)
         ELSE Result("morpher", morpher, <<>>, morpher, n)
    ELSE IF ApplyOption(Head(os), morpher).panic
    THEN Result("panic", NoBuilt.m, <<>>, morpher, n)
    ELSE IF ApplyOption(Head(os), morpher).err # <<>>
    THEN [NewMorpherFromAppliesAll(morpher, Tail(os), n + 1)
            EXCEPT !.state = IF @ = "panic" THEN @ ELSE "error",
                   !.m = NoBuilt.m,
                   !.err = ApplyOption(Head(os), morpher).err]
    ELSE NewMorpherFromAppliesAll(ApplyOption(Head(os), morpher).m, Tail(os), n + 1)

\* A mutant of NewMorpherFrom: the Morpher is returned without IsValid.
RECURSIVE NewMorpherFromUnchecked(_, _, _)
NewMorpherFromUnchecked(morpher, os, n) ==
    IF os = <<>>
    THEN Result("morpher", morpher, <<>>, morpher, n)
    ELSE IF ApplyOption(Head(os), morpher).panic
    THEN Result("panic", NoBuilt.m, <<>>, morpher, n)
    ELSE IF ApplyOption(Head(os), morpher).err # <<>>
    THEN Result("error", NoBuilt.m, ApplyOption(Head(os), morpher).err, morpher, n)
    ELSE NewMorpherFromUnchecked(ApplyOption(Head(os), morpher).m, Tail(os), n + 1)

\* NewMorpher's loop over the options from the n-th on, and the IsValid after it.
RECURSIVE NewMorpherFrom(_, _, _)
NewMorpherFrom(morpher, os, n) ==
    IF os = <<>>
    THEN IF IsValid(morpher.Dialect, morpher.Migrations, morpher.TableName) # <<>>
         THEN Result("error", NoBuilt.m,
                     IsValid(morpher.Dialect, morpher.Migrations, morpher.TableName),
                     morpher, n)
         ELSE Result("morpher", morpher, <<>>, morpher, n)
    ELSE IF ApplyOption(Head(os), morpher).panic
    THEN Result("panic", NoBuilt.m, <<>>, morpher, n)
    ELSE IF ApplyOption(Head(os), morpher).err # <<>>
    THEN Result("error", NoBuilt.m, ApplyOption(Head(os), morpher).err, morpher, n)
    ELSE NewMorpherFrom(ApplyOption(Head(os), morpher).m, Tail(os), n + 1)

\* NewMorpher(options...)
NewMorpher(os) == NewMorpherFrom(NewMorpherStart, os, 0)


(***************************************************************************)
(* The consistency check.                                                  *)
(***************************************************************************)
\* A mutant of checkSite: the too-old test comes before the sortedness test.
checkSiteTooOldFirst(applied, migs) ==
    IF StrLess(migs[Len(migs)], applied[Len(applied)]) THEN "tooOld"
    ELSE IF ~IsSorted(applied) THEN "unsorted"
    ELSE IF Len(migs) < Len(applied) THEN "length"
    ELSE IF \E i \in 1..Len(applied) : applied[i] # migs[i] THEN "prefix"
    ELSE "nil"

\* A mutant of checkSite: the too-old test is left out.
checkSiteNoTooOld(applied, migs) ==
    IF ~IsSorted(applied) THEN "unsorted"
    ELSE IF Len(migs) < Len(applied) THEN "length"
    ELSE IF \E i \in 1..Len(applied) : applied[i] # migs[i] THEN "prefix"
    ELSE "nil"

\* A mutant of checkSite: the prefix is compared only at the last applied position.
checkSiteLastOnly(applied, migs) ==
    IF ~IsSorted(applied) THEN "unsorted"
    ELSE IF StrLess(migs[Len(migs)], applied[Len(applied)]) THEN "tooOld"
    ELSE IF Len(migs) < Len(applied) THEN "length"
    ELSE IF applied[Len(applied)] # migs[Len(applied)] THEN "prefix"
    ELSE "nil"

\* A mutant of checkSite: the sortedness test is left out.
checkSiteNoSorted(applied, migs) ==
    IF StrLess(migs[Len(migs)], applied[Len(applied)]) THEN "tooOld"
    ELSE IF Len(migs) < Len(applied) THEN "length"
    ELSE IF \E i \in 1..Len(applied) : applied[i] # migs[i] THEN "prefix"
    ELSE "nil"

\* A mutant of checkSite: the comparison with the configured keys leaves out the
\* first applied identifier.
checkSiteSkipFirst(applied, migs) ==
    IF ~IsSorted(applied) THEN "unsorted"
    ELSE IF StrLess(migs[Len(migs)], applied[Len(applied)]) THEN "tooOld"
    ELSE IF Len(migs) < Len(applied) THEN "length"
    ELSE IF \E i \in 2..Len(applied) : applied[i] # migs[i] THEN "prefix"
    ELSE "nil"

\* The return statement of checkAppliedMigrations that is taken, for a non-empty
\* applied and the sorted, non-empty migs.
checkSite(applied, migs) ==
    IF ~IsSorted(applied) THEN "unsorted"
    ELSE IF StrLess(migs[Len(migs)], applied[Len(applied)]) THEN "tooOld"
    ELSE IF Len(migs) < Len(applied) THEN "length"
    ELSE IF \E i \in 1..Len(applied) : applied[i] # migs[i] THEN "prefix"
    ELSE "nil"

\* The error each return statement of checkAppliedMigrations returns.
siteError(site) ==
    CASE site = "unsorted" -> <<"ErrMigrationsUnsorted">>
      [] site = "tooOld"   -> <<"ErrMigrationsTooOld">>
      [] site = "length"   -> <<"ErrMigrationsUnrelated">>
      [] site = "prefix"   -> <<"ErrMigrationsUnrelated">>
      [] OTHER             -> <<>>

\* Morpher.checkAppliedMigrations
checkAppliedMigrations(applied, migs) == siteError(checkSite(applied, migs))

\* A mutant of ResumePoint: the first applied identifier is taken.
ResumePointFirst(applied) == applied[1]

\* Run's lastMigration after a passed check: the last applied identifier.
ResumePoint(applied) == applied[Len(applied)]

\* A mutant of AlreadyApplied: only keys strictly below lastMigration are skipped.
AlreadyAppliedStrict(last, key) == StrLess(key, last)

\* A mutant of AlreadyApplied: the comparison is the other way round.
AlreadyAppliedInverted(last, key) == StrLess(last, key)

\* A mutant of AlreadyApplied: no migration is skipped.
AlreadyAppliedNever(last, key) == FALSE

\* applyMigrations' test lastMigration >= migration.Key()
AlreadyApplied(last, key) == ~StrLess(last, key)

(***************************************************************************)
(* The database's transaction.                                             *)
(***************************************************************************)
\* A mutant of RolledBack: the statements executed in the transaction stay.
RolledBackLeaks(eff, t) == eff \cup {<<t.key, i>> : i \in 1..t.stmts}

\* A mutant of RolledBack: the rollback undoes the statements of earlier transactions too.
RolledBackAll(eff, t) == {}

\* The visible statements after tx.Rollback(): what the transaction executed is gone.
RolledBack(eff, t) == eff

\* The visible statements after a successful tx.Commit().
Committed(eff, t) == eff \cup {<<t.key, i>> : i \in 1..t.stmts}

\* A mutant of CommittedRows: the new row is put before the rows there are.
CommittedRowsFirst(rs, t) == IF t.reg THEN <<t.key>> \o rs ELSE rs

\* The rows after a successful tx.Commit(): the row RegisterMigration inserted is last.
CommittedRows(rs, t) == IF t.reg THEN Append(rs, t.key) ELSE rs

\* A mutant of TxRollback: the rollback does not end the transaction.
TxRollbackNoop(t) == t

\* tx.Rollback(): ends an active transaction; on one that has ended it changes nothing.
TxRollback(t) == IF t.state = "active" THEN [t EXCEPT !.state = "rolledback"] ELSE t


(***************************************************************************)
(* applyStepsStream: the lines of a stream and the text of a step.         *)
(***************************************************************************)
\* the longest stream, in lines
MaxLines == 5

\* The character '\n' that joins the lines of a step.
Newline == 10

\* The line ";" that ends a step, and the marker "--" of a comment ('-' = 4, ';' = 9).
Terminator == <<9>>
CommentMarker == <<4, 4>>

\* The lines of the streams: "", ";", "--a", "a;" and "b".
Lines == {<<>>, Terminator, <<4, 4, 1>>, <<1, 9>>, <<2>>}

\* The streams of at most MaxLines lines.
Readers == UNION {[1..n -> Lines] : n \in 0..MaxLines}

\* The identifiers applyStepsStream is called with: "a" and "b".
MigrationIDs == {<<1>>, <<2>>}

\* strings.HasPrefix(s, prefix)
HasPrefix(s, prefix) == Len(s) >= Len(prefix) /\ SubSeq(s, 1, Len(prefix)) = prefix

\* A mutant of SkipLine: a comment line is skipped wherever it stands.
SkipLineAnywhere(new, line) == HasPrefix(line, CommentMarker)

\* The line is skipped: newStep && strings.HasPrefix(scanner.Text(), "--").
SkipLine(new, line) == new /\ HasPrefix(line, CommentMarker)

\* A mutant of WriteLine: no newline is written between the lines.
WriteLineNoNewline(b, line) == b \o line

\* The line is appended to buf, after a newline when buf holds text.
WriteLine(b, line) == IF Len(b) > 0 THEN b \o <<Newline>> \o line ELSE line

\* A mutant of Remaining: the text left in buf is executed whatever it is.
RemainingAlways(b) == TRUE

\* After the loop: buf.Len() > 0, text is left for a final step.
Remaining(b) == Len(b) > 0

\* applyStepsStream returned nil.
NoStepError == [kind |-> "nil", id |-> <<>>, step |-> 0]

\* A mutant of StepError: the steps are counted from one.
StepErrorOneBased(id, n, final) ==
    [kind |-> IF final THEN "apply migration step (final)" ELSE "apply migration step",
     id |-> id, step |-> n + 1]

\* fmt.Errorf("apply migration %q step %d: %w", migrationID, step, err), and the
\* same with "(final)" after the loop.
StepError(id, n, final) ==
    [kind |-> IF final THEN "apply migration step (final)" ELSE "apply migration step",
     id |-> id, step |-> n]

\* wrapIfError("scanner error", scanner.Err())
ScannerError(failed) ==
    IF failed THEN [kind |-> "scanner error", id |-> <<>>, step |-> 0] ELSE NoStepError

(***************************************************************************)
(* The operations of BaseDialect on the migration table.                   *)
(***************************************************************************)
\* What an EnsureMigrationTableExists did: whether the table exists after it, how
\* its transaction ended, its error, and the failure the database answered with.
EnsureResult(exists, txState, e, inject) ==
    [exists |-> exists, tx |-> txState, err |-> e, inject |-> inject]

\* No EnsureMigrationTableExists was called.
NoEnsure == EnsureResult(FALSE, "none", <<>>, "none")

\* A mutant of CreateTemplate: CREATE TABLE without IF NOT EXISTS.
CreateTemplateUnguarded(exists) ==
    IF exists THEN [exists |-> TRUE, err |-> <<"table exists">>]
    ELSE [exists |-> TRUE, err |-> <<>>]

\* The statement of CreateTemplate (CREATE TABLE IF NOT EXISTS), executed: the
\* table exists after it, and it is no error that it existed before.
CreateTemplate(exists) == [exists |-> TRUE, err |-> <<>>]

\* The error of a call joined with the error of the tx.Rollback() after it.
JoinRollback(e, rollbackOk) == IF rollbackOk THEN e ELSE e \o <<"rollback">>

\* BaseDialect.EnsureMigrationTableExists: db.Begin, the statement of
\* CreateTemplate in the transaction, tx.Commit; after a failed statement or a
\* failed Commit tx.Rollback(), whose error is joined. inject is the call the
\* database fails, rollbackOk whether tx.Rollback() returns nil.
BaseEnsureMigrationTableExists(exists, inject, rollbackOk) ==
    IF inject = "begin"
    THEN EnsureResult(exists, "none", <<"begin">>, inject)
    ELSE IF inject = "exec" \/ CreateTemplate(exists).err # <<>>
    THEN EnsureResult(exists, "rolledback", JoinRollback(<<"exec">>, rollbackOk), inject)
    ELSE IF inject = "commit"
    THEN EnsureResult(exists, "rolledback", JoinRollback(<<"commit">>, rollbackOk), inject)
    ELSE EnsureResult(CreateTemplate(exists).exists, "committed", <<>>, inject)

\* BaseDialect.AppliedMigrations on the rows rs: db.Query, then rows.Next and
\* rows.Scan for each row, then rows.Err(). inject is the call the database fails,
\* after n rows were scanned; what was appended to result by then is returned
\* with the error.
BaseAppliedMigrations(rs, exists, inject, n) ==
    IF inject = "query" \/ ~exists
    THEN [result |-> <<>>, err |-> <<"query">>]
    ELSE IF inject = "scan"
    THEN [result |-> SubSeq(rs, 1, n), err |-> <<"scan">>]
    ELSE IF inject = "rows"
    THEN [result |-> SubSeq(rs, 1, n), err |-> <<"rows">>]
    ELSE [result |-> rs, err |-> <<>>]

(***************************************************************************)
(* The state after construction: an empty database, no Run called yet.     *)
(***************************************************************************)
InitRun ==
    /\ Dialect = FALSE
    /\ Migrations = <<>>
    /\ TableName = <<>>
    /\ Log = "default"
    /\ ctxErr = FALSE
    /\ rows = <<>>
    /\ effects = {}
    /\ tx = NoTx
    /\ pc = "idle"
    /\ appliedMigrations = <<>>
    /\ lastMigration = <<>>
    /\ idx = 0
    /\ err = <<>>
    /\ pendErr = <<>>
    /\ begun = <<>>
    /\ rows0 = <<>>
    /\ prevMigrations = <<>>
    /\ calls = <<>>
    /\ reordered = FALSE
    /\ dialectCalls = <<>>
    /\ built = NoBuilt
    /\ tableExists = FALSE
    /\ ensure = NoEnsure

\* applyStepsStream is not called yet.
StreamIdle ==
    /\ migrationID = <<>>
    /\ logger = "default"
    /\ scanned = 0
    /\ buf = <<>>
    /\ newStep = TRUE
    /\ step = 0
    /\ executed = <<>>
    /\ acc = <<>>
    /\ spc = "idle"
    /\ serr = NoStepError

\* The program has no stream to apply.
NoStream == reader = <<>> /\ StreamIdle

\* The keys of three migrations m, n and p, and what migrationOrder returned for
\* the pairs of them (2 stands for no call yet).
Comparison(m, n, p, mn, nm, np, mp) ==
    [m |-> m, n |-> n, p |-> p, mn |-> mn, nm |-> nm, np |-> np, mp |-> mp]

\* Nothing is compared.
NoComparison == Comparison(<<>>, <<>>, <<>>, 2, 2, 2, 2)

\* The two Runs of the program that runs two Morphers at once.
Runners == {1, 2}

\* The variables of the two Runs.
twoVars == <<migrationSet, runners, history, visible>>

\* No transaction of a Run on its own connection.
NoRunnerTx == [active |-> FALSE, key |-> <<>>, migrated |-> FALSE, reg |-> FALSE]

\* A Morpher whose Run was not called: its Migrations, and the local variables of
\* Run, applyMigrations and runOneMigration.
IdleRunner(ms) ==
    [Migrations |-> ms, pc |-> "idle", appliedMigrations |-> <<>>, lastMigration |-> <<>>,
     idx |-> 0, tx |-> NoRunnerTx, begun |-> <<>>, pendErr |-> <<>>, err |-> <<>>]

\* The program runs no two Morphers at once.
NoRunners ==
    /\ migrationSet = <<>>
    /\ runners = [r \in Runners |-> IdleRunner(<<>>)]
    /\ history = <<>>
    /\ visible = {}

\* The program gives no options: it runs Morpher values it has set up itself.
Init == options = <<>> /\ InitRun /\ NoStream /\ cmp = NoComparison /\ NoRunners

\* The program has a list of options for NewMorpher or for the package's Run.
InitNew ==
    options \in OptionLists /\ InitRun /\ NoStream /\ cmp = NoComparison /\ NoRunners

\* The Migrations slices of at most MaxMigs migrations, duplicates and "" included.
MigrationLists == UNION {[1..n -> Keys] : n \in 0..MaxMigs}

\* The Morpher values Run is called on: every Migrations slice with a dialect and
\* the table name "m", with a logger or with none; and, for the invalid ones,
\* every dialect and table name with no migration or one.
Morphers ==
    [Dialect : {TRUE}, Migrations : MigrationLists, TableName : {<<1>>},
     Log : {"default", "nil"}]
    \cup
    [Dialect : BOOLEAN, Migrations : {<<>>, <<<<2>>>>}, TableName : TableNames,
     Log : {"default"}]

Returned == pc \in {"idle", "done", "panic"}

morpherVars == <<Dialect, Migrations, TableName, Log>>
dbVars == <<rows, effects>>

\* Run returns e.
Return(e) ==
    /\ err' = e
    /\ pc' = "done"

(***************************************************************************)
(* Morpher.Run is called on the Morpher m; IsValid.                        *)
(***************************************************************************)
MorpherRun(m) ==
    /\ Dialect' = m.Dialect
    /\ Migrations' = m.Migrations
    /\ TableName' = m.TableName
    /\ Log' = m.Log
    /\ IF IsValid(m.Dialect, m.Migrations, m.TableName) # <<>>
       THEN Return(IsValid(m.Dialect, m.Migrations, m.TableName))
       ELSE err' = <<>> /\ pc' = "ensure"
    /\ prevMigrations' = IF pc = "done" /\ err = <<>> THEN Migrations ELSE <<>>
    /\ ctxErr' = FALSE
    /\ tx' = NoTx
    /\ appliedMigrations' = <<>>
    /\ lastMigration' = <<>>
    /\ idx' = 0
    /\ pendErr' = <<>>
    /\ begun' = <<>>
    /\ rows0' = rows
    /\ calls' = <<>>
    /\ reordered' = FALSE
    /\ dialectCalls' = <<>>
    /\ ensure' = NoEnsure
    /\ UNCHANGED dbVars

\* The program calls Run on a Morpher value it has set up.
CallRun ==
    /\ Returned
    /\ \E m \in Morphers : MorpherRun(m)
    /\ UNCHANGED <<options, built>>
    /\ UNCHANGED tableExists
    /\ UNCHANGED streamVars
    /\ UNCHANGED cmp
    /\ UNCHANGED twoVars

\* The caller cancels the context of the running Run.
Cancel ==
    /\ ~Returned
    /\ ~ctxErr
    /\ ctxErr' = TRUE
    /\ UNCHANGED <<morpherVars, dbVars, tx, pc, appliedMigrations, lastMigration, idx,
                   err, pendErr, begun, rows0, prevMigrations, calls, reordered>>
    /\ UNCHANGED <<dialectCalls, options, built>>
    /\ UNCHANGED <<tableExists, ensure>>
    /\ UNCHANGED streamVars
    /\ UNCHANGED cmp
    /\ UNCHANGED twoVars

\* m.Dialect.EnsureMigrationTableExists of a BaseDialect, with the failure the
\* database answers with, if any.
EnsureMigrationTableExists ==
    /\ pc = "ensure"
    /\ \E inject \in {"none", "begin", "exec", "commit"}, rollbackOk \in BOOLEAN :
        /\ ensure' = BaseEnsureMigrationTableExists(tableExists, inject, rollbackOk)
        /\ tableExists' = ensure'.exists
        /\ IF ensure'.err = <<>> THEN pc' = "applied" /\ err' = err
           ELSE Return(<<"could not create migration table">>)
    /\ UNCHANGED <<morpherVars, dbVars, ctxErr, tx, appliedMigrations, lastMigration, idx,
                   pendErr, begun, rows0, prevMigrations, calls, reordered>>
    /\ dialectCalls' = Append(dialectCalls, "EnsureMigrationTableExists")
    /\ UNCHANGED <<options, built>>
    /\ UNCHANGED streamVars
    /\ UNCHANGED cmp
    /\ UNCHANGED twoVars

\* m.Dialect.AppliedMigrations of a BaseDialect, with the failure the database
\* answers with, if any, after n rows; Run keeps what it returned in
\* appliedMigrations and returns when the error is not nil.
AppliedMigrations ==
    /\ pc = "applied"
    /\ \E inject \in {"none", "query", "scan", "rows"}, n \in 0..Len(rows) :
        /\ inject \in {"none", "query"} => n = 0
        /\ inject = "scan" => n < Len(rows)
        /\ appliedMigrations' = BaseAppliedMigrations(rows, tableExists, inject, n).result
        /\ IF BaseAppliedMigrations(rows, tableExists, inject, n).err = <<>>
           THEN pc' = "check" /\ err' = err
           ELSE Return(<<"could not get applied migrations">>)
    /\ UNCHANGED <<morpherVars, dbVars, ctxErr, tx, lastMigration, idx,
                   pendErr, begun, rows0, prevMigrations, calls, reordered>>
    /\ dialectCalls' = Append(dialectCalls, "AppliedMigrations")
    /\ UNCHANGED <<options, built>>
    /\ UNCHANGED <<tableExists, ensure>>
    /\ UNCHANGED streamVars
    /\ UNCHANGED cmp
    /\ UNCHANGED twoVars

\* A mutant of CheckApplied: the error of checkAppliedMigrations is not looked at.
CheckAppliedIgnoresError ==
    /\ pc = "check"
    /\ Migrations' = SortFunc(Migrations)
    /\ IF Log = "nil"
       THEN pc' = "panic" /\ UNCHANGED <<err, lastMigration, idx>>
       ELSE /\ lastMigration' = IF Len(appliedMigrations) = 0 THEN lastMigration
                                ELSE ResumePoint(appliedMigrations)
            /\ pc' = "loop" /\ idx' = 1 /\ err' = err
    /\ reordered' = (SortFunc(Migrations) # Migrations)
    /\ UNCHANGED <<Dialect, TableName, Log, dbVars, ctxErr, tx, appliedMigrations,
                   pendErr, begun, rows0, prevMigrations, calls>>
    /\ UNCHANGED <<dialectCalls, options, built>>
    /\ UNCHANGED <<tableExists, ensure>>
    /\ UNCHANGED streamVars
    /\ UNCHANGED cmp
    /\ UNCHANGED twoVars

\* Run from the sort to the call of applyMigrations: a nil logger panics at the
\* first log call, a non-empty history is checked.
CheckApplied ==
    /\ pc = "check"
    /\ Migrations' = SortFunc(Migrations)
    /\ IF Log = "nil"
       THEN pc' = "panic" /\ UNCHANGED <<err, lastMigration, idx>>
       ELSE IF Len(appliedMigrations) = 0
       THEN pc' = "loop" /\ idx' = 1 /\ UNCHANGED <<err, lastMigration>>
       ELSE IF checkAppliedMigrations(appliedMigrations, Migrations') # <<>>
       THEN Return(checkAppliedMigrations(appliedMigrations, Migrations'))
            /\ UNCHANGED <<lastMigration, idx>>
       ELSE /\ lastMigration' = ResumePoint(appliedMigrations)
            /\ pc' = "loop" /\ idx' = 1 /\ err' = err
    /\ reordered' = (SortFunc(Migrations) # Migrations)
    /\ UNCHANGED <<Dialect, TableName, Log, dbVars, ctxErr, tx, appliedMigrations,
                   pendErr, begun, rows0, prevMigrations, calls>>
    /\ UNCHANGED <<dialectCalls, options, built>>
    /\ UNCHANGED <<tableExists, ensure>>
    /\ UNCHANGED streamVars
    /\ UNCHANGED cmp
    /\ UNCHANGED twoVars

(***************************************************************************)
(* applyMigrations: one iteration of the range loop, up to db.BeginTx.     *)
(***************************************************************************)
\* The loop has no migration left: applyMigrations returns nil.
ApplyDone ==
    /\ pc = "loop"
    /\ idx > Len(Migrations)
    /\ Return(<<>>)
    /\ UNCHANGED <<morpherVars, dbVars, ctxErr, tx, appliedMigrations, lastMigration, idx,
                   pendErr, begun, rows0, prevMigrations, calls, reordered>>
    /\ UNCHANGED <<dialectCalls, options, built>>
    /\ UNCHANGED <<tableExists, ensure>>
    /\ UNCHANGED streamVars
    /\ UNCHANGED cmp
    /\ UNCHANGED twoVars

\* lastMigration >= migration.Key(): logged as already applied, and on to the next.
SkipApplied ==
    /\ pc = "loop"
    /\ idx <= Len(Migrations)
    /\ AlreadyApplied(lastMigration, Migrations[idx])
    /\ idx' = idx + 1
    /\ UNCHANGED <<morpherVars, dbVars, ctxErr, tx, pc, appliedMigrations, lastMigration,
                   err, pendErr, begun, rows0, prevMigrations, calls, reordered>>
    /\ UNCHANGED <<dialectCalls, options, built>>
    /\ UNCHANGED <<tableExists, ensure>>
    /\ UNCHANGED streamVars
    /\ UNCHANGED cmp
    /\ UNCHANGED twoVars

\* ctx.Err() # nil before the transaction of a migration to apply.
ContextCancelled ==
    /\ pc = "loop"
    /\ idx <= Len(Migrations)
    /\ ~AlreadyApplied(lastMigration, Migrations[idx])
    /\ ctxErr
    /\ Return(<<"context cancelled before migration">>)
    /\ UNCHANGED <<morpherVars, dbVars, ctxErr, tx, appliedMigrations, lastMigration, idx,
                   pendErr, begun, rows0, prevMigrations, calls, reordered>>
    /\ UNCHANGED <<dialectCalls, options, built>>
    /\ UNCHANGED <<tableExists, ensure>>
    /\ UNCHANGED streamVars
    /\ UNCHANGED cmp
    /\ UNCHANGED twoVars

\* A mutant of BeginTx: the context is not checked before the transaction.
BeginTxNoContextCheck ==
    /\ pc = "loop"
    /\ idx <= Len(Migrations)
    /\ ~AlreadyApplied(lastMigration, Migrations[idx])
    /\ begun' = Append(begun, Migrations[idx])
    /\ tx' = [state |-> "active", key |-> Migrations[idx], stmts |-> 0, reg |-> FALSE]
    /\ calls' = <<<<"BeginTx", TRUE>>>>
    /\ pc' = "migrate"
    /\ UNCHANGED <<morpherVars, dbVars, ctxErr, appliedMigrations, lastMigration, idx,
                   err, pendErr, rows0, prevMigrations, reordered>>
    /\ UNCHANGED <<dialectCalls, options, built>>
    /\ UNCHANGED <<tableExists, ensure>>
    /\ UNCHANGED streamVars
    /\ UNCHANGED cmp
    /\ UNCHANGED twoVars

\* runOneMigration: db.BeginTx.
BeginTx ==
    /\ pc = "loop"
    /\ idx <= Len(Migrations)
    /\ ~AlreadyApplied(lastMigration, Migrations[idx])
    /\ ~ctxErr
    /\ begun' = Append(begun, Migrations[idx])
    /\ \E ok \in BOOLEAN :
        IF ok
        THEN /\ tx' = [state |-> "active", key |-> Migrations[idx], stmts |-> 0, reg |-> FALSE]
             /\ calls' = <<<<"BeginTx", TRUE>>>>
             /\ pc' = "migrate" /\ err' = err
        ELSE /\ tx' = NoTx
             /\ calls' = <<<<"BeginTx", FALSE>>>>
             /\ Return(<<"begin tx">>)
    /\ UNCHANGED <<morpherVars, dbVars, ctxErr, appliedMigrations, lastMigration, idx,
                   pendErr, rows0, prevMigrations, reordered>>
    /\ UNCHANGED <<dialectCalls, options, built>>
    /\ UNCHANGED <<tableExists, ensure>>
    /\ UNCHANGED streamVars
    /\ UNCHANGED cmp
    /\ UNCHANGED twoVars

\* A mutant of Migrate: the error of mig.Migrate is not looked at.
MigrateIgnoresError ==
    /\ pc = "migrate"
    /\ \E n \in 0..MaxStmts, ok \in BOOLEAN :
        /\ ok => n = MaxStmts
        /\ tx' = [tx EXCEPT !.stmts = n]
        /\ calls' = Append(calls, <<"Migrate", ok>>)
        /\ pc' = "register" /\ pendErr' = pendErr
    /\ UNCHANGED <<morpherVars, dbVars, ctxErr, appliedMigrations, lastMigration, idx,
                   err, begun, rows0, prevMigrations, reordered>>
    /\ UNCHANGED <<dialectCalls, options, built>>
    /\ UNCHANGED <<tableExists, ensure>>
    /\ UNCHANGED streamVars
    /\ UNCHANGED cmp
    /\ UNCHANGED twoVars

\* runOneMigration: mig.Migrate executes n statements in the transaction and
\* returns nil after the last, or fails after any number of them.
Migrate ==
    /\ pc = "migrate"
    /\ \E n \in 0..MaxStmts, ok \in BOOLEAN :
        /\ ok => n = MaxStmts
        /\ tx' = [tx EXCEPT !.stmts = n]
        /\ calls' = Append(calls, <<"Migrate", ok>>)
        /\ IF ok THEN pc' = "register" /\ pendErr' = pendErr
           ELSE pc' = "rollback" /\ pendErr' = <<"migrate">>
    /\ UNCHANGED <<morpherVars, dbVars, ctxErr, appliedMigrations, lastMigration, idx,
                   err, begun, rows0, prevMigrations, reordered>>
    /\ UNCHANGED <<dialectCalls, options, built>>
    /\ UNCHANGED <<tableExists, ensure>>
    /\ UNCHANGED streamVars
    /\ UNCHANGED cmp
    /\ UNCHANGED twoVars

\* A mutant of RegisterMigration: the call succeeds and inserts no row.
RegisterMigrationNoRow ==
    /\ pc = "register"
    /\ \E ok \in BOOLEAN :
        /\ ok => tx.key \notin Range(rows)
        /\ calls' = Append(calls, <<"RegisterMigration", ok>>)
        /\ IF ok THEN tx' = tx /\ pc' = "commit" /\ pendErr' = pendErr
           ELSE tx' = tx /\ pc' = "rollback" /\ pendErr' = <<"register">>
    /\ UNCHANGED <<morpherVars, dbVars, ctxErr, appliedMigrations, lastMigration, idx,
                   err, begun, rows0, prevMigrations, reordered>>
    /\ dialectCalls' = Append(dialectCalls, "RegisterMigration")
    /\ UNCHANGED <<options, built>>
    /\ UNCHANGED <<tableExists, ensure>>
    /\ UNCHANGED streamVars
    /\ UNCHANGED cmp
    /\ UNCHANGED twoVars

\* runOneMigration: m.Dialect.RegisterMigration inserts the key in the transaction;
\* the id column is the primary key, so a key that has a row cannot be inserted.
RegisterMigration ==
    /\ pc = "register"
    /\ \E ok \in BOOLEAN :
        /\ ok => tx.key \notin Range(rows)
        /\ calls' = Append(calls, <<"RegisterMigration", ok>>)
        /\ IF ok THEN tx' = [tx EXCEPT !.reg = TRUE] /\ pc' = "commit" /\ pendErr' = pendErr
           ELSE tx' = tx /\ pc' = "rollback" /\ pendErr' = <<"register">>
    /\ UNCHANGED <<morpherVars, dbVars, ctxErr, appliedMigrations, lastMigration, idx,
                   err, begun, rows0, prevMigrations, reordered>>
    /\ dialectCalls' = Append(dialectCalls, "RegisterMigration")
    /\ UNCHANGED <<options, built>>
    /\ UNCHANGED <<tableExists, ensure>>
    /\ UNCHANGED streamVars
    /\ UNCHANGED cmp
    /\ UNCHANGED twoVars

\* A mutant of Commit: a Commit that returns an error has written the row.
CommitFailedKeepsRow ==
    /\ pc = "commit"
    /\ \E ok \in BOOLEAN :
        /\ ok => ~ctxErr
        /\ IF ok
           THEN
             /\ rows' = CommittedRows(rows, tx)
             /\ effects' = Committed(effects, tx)
             /\ tx' = TxRollback([tx EXCEPT !.state = "committed"])
             /\ calls' = calls \o <<<<"Commit", TRUE>>, <<"Rollback", FALSE>>>>
             /\ idx' = idx + 1
             /\ pc' = "loop" /\ pendErr' = pendErr
           ELSE
             /\ rows' = CommittedRows(rows, tx)
             /\ calls' = Append(calls, <<"Commit", FALSE>>)
             /\ pc' = "rollback" /\ pendErr' = <<"commit">>
             /\ UNCHANGED <<effects, tx, idx>>
    /\ UNCHANGED <<morpherVars, ctxErr, appliedMigrations, lastMigration,
                   err, begun, rows0, prevMigrations, reordered>>
    /\ UNCHANGED <<dialectCalls, options, built>>
    /\ UNCHANGED <<tableExists, ensure>>
    /\ UNCHANGED streamVars
    /\ UNCHANGED cmp
    /\ UNCHANGED twoVars

\* runOneMigration: tx.Commit. On success the deferred tx.Rollback() finds the
\* transaction ended, runOneMigration returns nil and the loop goes on; a failed
\* Commit commits nothing, and the Commit of a transaction begun with a context
\* that is cancelled by now fails (database/sql).
Commit ==
    /\ pc = "commit"
    /\ \E ok \in BOOLEAN :
        /\ ok => ~ctxErr
        /\ IF ok
           THEN
             /\ rows' = CommittedRows(rows, tx)
             /\ effects' = Committed(effects, tx)
             /\ tx' = TxRollback([tx EXCEPT !.state = "committed"])
             /\ calls' = calls \o <<<<"Commit", TRUE>>, <<"Rollback", FALSE>>>>
             /\ idx' = idx + 1
             /\ pc' = "loop" /\ pendErr' = pendErr
           ELSE
             /\ calls' = Append(calls, <<"Commit", FALSE>>)
             /\ pc' = "rollback" /\ pendErr' = <<"commit">>
             /\ UNCHANGED <<dbVars, tx, idx>>
    /\ UNCHANGED <<morpherVars, ctxErr, appliedMigrations, lastMigration,
                   err, begun, rows0, prevMigrations, reordered>>
    /\ UNCHANGED <<dialectCalls, options, built>>
    /\ UNCHANGED <<tableExists, ensure>>
    /\ UNCHANGED streamVars
    /\ UNCHANGED cmp
    /\ UNCHANGED twoVars

\* A mutant of Rollback: after the rollback the loop goes on with the next migration.
RollbackAndContinue ==
    /\ pc = "rollback"
    /\ effects' = RolledBack(effects, tx)
    /\ tx' = TxRollback(TxRollback(tx))
    /\ calls' = calls \o <<<<"Rollback", TRUE>>, <<"Rollback", FALSE>>>>
    /\ idx' = idx + 1
    /\ pc' = "loop"
    /\ UNCHANGED <<morpherVars, rows, ctxErr, appliedMigrations, lastMigration,
                   err, pendErr, begun, rows0, prevMigrations, reordered>>
    /\ UNCHANGED <<dialectCalls, options, built>>
    /\ UNCHANGED <<tableExists, ensure>>
    /\ UNCHANGED streamVars
    /\ UNCHANGED cmp
    /\ UNCHANGED twoVars

\* A mutant of Rollback: the error of tx.Rollback() is dropped.
RollbackDropsError ==
    /\ pc = "rollback"
    /\ effects' = RolledBack(effects, tx)
    /\ tx' = TxRollback(TxRollback(tx))
    /\ \E ok \in BOOLEAN :
        /\ calls' = calls \o <<<<"Rollback", ok>>, <<"Rollback", FALSE>>>>
        /\ Return(pendErr)
    /\ UNCHANGED <<morpherVars, rows, ctxErr, appliedMigrations, lastMigration, idx,
                   pendErr, begun, rows0, prevMigrations, reordered>>
    /\ UNCHANGED <<dialectCalls, options, built>>
    /\ UNCHANGED <<tableExists, ensure>>
    /\ UNCHANGED streamVars
    /\ UNCHANGED cmp
    /\ UNCHANGED twoVars

\* runOneMigration after a failed Migrate, RegisterMigration or Commit: tx.Rollback(),
\* whose error, if any, is joined to the failure's; the deferred tx.Rollback() follows
\* and finds the transaction ended (its error is dropped).
Rollback ==
    /\ pc = "rollback"
    /\ effects' = RolledBack(effects, tx)
    /\ tx' = TxRollback(TxRollback(tx))
    /\ \E ok \in BOOLEAN :
        /\ calls' = calls \o <<<<"Rollback", ok>>, <<"Rollback", FALSE>>>>
        /\ Return(IF ok THEN pendErr ELSE pendErr \o <<"rollback">>)
    /\ UNCHANGED <<morpherVars, rows, ctxErr, appliedMigrations, lastMigration, idx,
                   pendErr, begun, rows0, prevMigrations, reordered>>
    /\ UNCHANGED <<dialectCalls, options, built>>
    /\ UNCHANGED <<tableExists, ensure>>
    /\ UNCHANGED streamVars
    /\ UNCHANGED cmp
    /\ UNCHANGED twoVars

\* Another client writes a row to the migration table, which it creates when it
\* is not there, between two Runs (as the tests do with INSERT INTO migrations):
\* no Run is then the last thing that happened.
ExternalInsert ==
    /\ Returned
    /\ \E k \in Keys :
        /\ k \notin Range(rows)
        /\ rows' = Append(rows, k)
    /\ pc' = "idle"
    /\ Dialect' = FALSE
    /\ Migrations' = <<>>
    /\ TableName' = <<>>
    /\ Log' = "default"
    /\ ctxErr' = FALSE
    /\ tx' = NoTx
    /\ appliedMigrations' = <<>>
    /\ lastMigration' = <<>>
    /\ idx' = 0
    /\ err' = <<>>
    /\ pendErr' = <<>>
    /\ begun' = <<>>
    /\ rows0' = <<>>
    /\ prevMigrations' = <<>>
    /\ calls' = <<>>
    /\ reordered' = FALSE
    /\ dialectCalls' = <<>>
    /\ tableExists' = TRUE
    /\ ensure' = NoEnsure
    /\ UNCHANGED <<effects, options, built>>
    /\ UNCHANGED streamVars
    /\ UNCHANGED cmp
    /\ UNCHANGED twoVars

Next ==
    \/ CallRun
    \/ Cancel
    \/ EnsureMigrationTableExists
    \/ AppliedMigrations
    \/ CheckApplied
    \/ ApplyDone
    \/ SkipApplied
    \/ ContextCancelled
    \/ BeginTx
    \/ Migrate
    \/ RegisterMigration
    \/ Commit
    \/ Rollback
    \/ ExternalInsert

Spec == Init /\ [][Next]_vars

\* A step of the Run that was called: the goroutine that called Run goes on, and
\* every call it makes returns.
RunStep ==
    \/ EnsureMigrationTableExists
    \/ AppliedMigrations
    \/ CheckApplied
    \/ ApplyDone
    \/ SkipApplied
    \/ ContextCancelled
    \/ BeginTx
    \/ Migrate
    \/ RegisterMigration
    \/ Commit
    \/ Rollback

\* The program of Spec, where a Run that was called is not held up for ever.
SpecLive == Init /\ [][Next]_vars /\ WF_vars(RunStep)

(***************************************************************************)
(* A program that constructs: it calls NewMorpher with its options and     *)
(* runs the Morpher it got, or gives the options to the package's Run; one *)
(* without options runs Morpher values.                                    *)
(***************************************************************************)
\* The program calls NewMorpher(options...).
NewMorpherCall ==
    /\ pc = "idle"
    /\ built.state = "none"
    /\ options # <<>>
    /\ built' = NewMorpher(options)
    /\ UNCHANGED <<morpherVars, dbVars, ctxErr, tx, pc, appliedMigrations, lastMigration,
                   idx, err, pendErr, begun, rows0, prevMigrations, calls, reordered,
                   dialectCalls, options, tableExists, ensure>>
    /\ UNCHANGED streamVars
    /\ UNCHANGED cmp
    /\ UNCHANGED twoVars

\* The program calls Run on the Morpher NewMorpher returned.
RunBuilt ==
    /\ pc = "idle"
    /\ built.state = "morpher"
    /\ MorpherRun(built.m)
    /\ UNCHANGED <<options, built>>
    /\ UNCHANGED tableExists
    /\ UNCHANGED streamVars
    /\ UNCHANGED cmp
    /\ UNCHANGED twoVars

\* The package's Run(ctx, db, options...): NewMorpher, and with no error m.Run.
Run ==
    /\ pc = "idle"
    /\ built.state = "none"
    /\ options # <<>>
    /\ built' = NewMorpher(options)
    /\ IF built'.state = "panic"
       THEN /\ pc' = "panic"
            /\ UNCHANGED <<morpherVars, dbVars, ctxErr, tx, appliedMigrations,
                           lastMigration, idx, err, pendErr, begun, rows0,
                           prevMigrations, calls, reordered, dialectCalls, ensure>>
       ELSE IF built'.err # <<>>
       THEN /\ Return(built'.err)
            /\ UNCHANGED <<morpherVars, dbVars, ctxErr, tx, appliedMigrations,
                           lastMigration, idx, pendErr, begun, rows0,
                           prevMigrations, calls, reordered, dialectCalls, ensure>>
       ELSE MorpherRun(built'.m)
    /\ UNCHANGED options
    /\ UNCHANGED <<tableExists, streamVars>>
    /\ UNCHANGED cmp
    /\ UNCHANGED twoVars

\* The program without options calls Run on a Morpher value.
CallRunNoOptions == options = <<>> /\ CallRun

NextNew ==
    \/ NewMorpherCall
    \/ RunBuilt
    \/ Run
    \/ CallRunNoOptions
    \/ Cancel
    \/ EnsureMigrationTableExists
    \/ AppliedMigrations
    \/ CheckApplied
    \/ ApplyDone
    \/ SkipApplied
    \/ ContextCancelled
    \/ BeginTx
    \/ Migrate
    \/ RegisterMigration
    \/ Commit
    \/ Rollback

SpecNew == InitNew /\ [][NextNew]_vars


(***************************************************************************)
(* applyStepsStream on a stream: a program that applies one stream in a    *)
(* transaction it holds. Every action is one turn of the scanner's loop,   *)
(* or what follows the loop.                                               *)
(***************************************************************************)
\* The program has a stream to apply.
InitStream ==
    /\ options = <<>> /\ InitRun /\ reader \in Readers /\ StreamIdle
    /\ cmp = NoComparison /\ NoRunners

\* The line scanner.Scan() delivers next.
NextLine == reader[scanned + 1]

\* applyStepsStream is called with an identifier and a logger.
CallApplyStepsStream ==
    /\ spc = "idle"
    /\ migrationID' \in MigrationIDs
    /\ logger' \in {"default", "nil"}
    /\ buf' = <<>>
    /\ newStep' = TRUE
    /\ step' = 0
    /\ spc' = "scan"
    /\ UNCHANGED <<reader, scanned, executed, acc, serr>>
    /\ UNCHANGED runVars
    /\ UNCHANGED cmp
    /\ UNCHANGED twoVars

\* The loop finds a comment where a step begins: the line is skipped.
SkipLeadingComment ==
    /\ spc = "scan"
    /\ scanned < Len(reader)
    /\ SkipLine(newStep, NextLine)
    /\ scanned' = scanned + 1
    /\ UNCHANGED <<reader, migrationID, logger, buf, newStep, step, executed, acc, spc, serr>>
    /\ UNCHANGED runVars
    /\ UNCHANGED cmp
    /\ UNCHANGED twoVars

\* The loop finds the line ";": the step is logged (a nil logger panics) and the
\* text of buf is executed; when that fails applyStepsStream returns the error,
\* else buf is reset and the next step begins.
ExecStep ==
    /\ spc = "scan"
    /\ scanned < Len(reader)
    /\ ~SkipLine(newStep, NextLine)
    /\ NextLine = Terminator
    /\ scanned' = scanned + 1
    /\ IF logger = "nil"
       THEN spc' = "panic" /\ UNCHANGED <<buf, newStep, step, executed, acc, serr>>
       ELSE \E ok \in BOOLEAN :
            /\ executed' = Append(executed, [text |-> buf, ok |-> ok])
            /\ IF ok
               THEN /\ buf' = <<>> /\ acc' = <<>>
                    /\ newStep' = TRUE
                    /\ step' = step + 1
                    /\ UNCHANGED <<spc, serr>>
               ELSE /\ serr' = StepError(migrationID, step, FALSE)
                    /\ spc' = "done"
                    /\ UNCHANGED <<buf, newStep, step, acc>>
    /\ UNCHANGED <<reader, migrationID, logger>>
    /\ UNCHANGED runVars
    /\ UNCHANGED cmp
    /\ UNCHANGED twoVars

\* The loop finds any other line: it is appended to buf.
AppendLine ==
    /\ spc = "scan"
    /\ scanned < Len(reader)
    /\ ~SkipLine(newStep, NextLine)
    /\ NextLine # Terminator
    /\ scanned' = scanned + 1
    /\ buf' = WriteLine(buf, NextLine)
    /\ acc' = Append(acc, NextLine)
    /\ newStep' = FALSE
    /\ UNCHANGED <<reader, migrationID, logger, step, executed, spc, serr>>
    /\ UNCHANGED runVars
    /\ UNCHANGED cmp
    /\ UNCHANGED twoVars

\* scanner.Scan() returns false, at the end of the stream or at an error of the
\* reader: the text left in buf is logged and executed as the final step, and
\* applyStepsStream returns its error, or else the scanner's.
Cleanup ==
    /\ spc = "scan"
    /\ scanned = Len(reader)
    /\ IF Remaining(buf) /\ logger = "nil"
       THEN spc' = "panic" /\ UNCHANGED <<executed, serr>>
       ELSE /\ spc' = "done"
            /\ \E ok \in BOOLEAN, failed \in BOOLEAN :
                IF Remaining(buf)
                THEN /\ executed' = Append(executed, [text |-> buf, ok |-> ok])
                     /\ serr' = IF ok THEN ScannerError(failed)
                                ELSE StepError(migrationID, step, TRUE)
                ELSE /\ executed' = executed
                     /\ serr' = ScannerError(failed)
    /\ UNCHANGED <<reader, migrationID, logger, scanned, buf, newStep, step, acc>>
    /\ UNCHANGED runVars
    /\ UNCHANGED cmp
    /\ UNCHANGED twoVars

NextStream ==
    \/ CallApplyStepsStream
    \/ SkipLeadingComment
    \/ ExecStep
    \/ AppendLine
    \/ Cleanup

SpecStream == InitStream /\ [][NextStream]_vars


(***************************************************************************)
(* migrationOrder on its own: a program that compares three migrations     *)
(* with each other.                                                        *)
(***************************************************************************)
\* the longest key that is compared
MaxKeyLen == 3

\* The keys compared: the strings of 'a' and 'b' of at most MaxKeyLen characters.
OrderKeys == UNION {[1..n -> {1, 2}] : n \in 0..MaxKeyLen}

\* The program has three migrations to compare.
InitOrder ==
    /\ options = <<>> /\ InitRun /\ NoStream /\ NoRunners
    /\ cmp \in {Comparison(m, n, p, 2, 2, 2, 2) : m \in OrderKeys, n \in OrderKeys,
                                                   p \in OrderKeys}

\* The program calls migrationOrder on the pairs.
CallMigrationOrder ==
    /\ cmp.mn = 2
    /\ cmp' = Comparison(cmp.m, cmp.n, cmp.p,
                         migrationOrder(cmp.m, cmp.n), migrationOrder(cmp.n, cmp.m),
                         migrationOrder(cmp.n, cmp.p), migrationOrder(cmp.m, cmp.p))
    /\ UNCHANGED runVars
    /\ UNCHANGED streamVars
    /\ UNCHANGED twoVars

NextOrder == CallMigrationOrder

SpecOrder == InitOrder /\ [][NextOrder]_vars


(***************************************************************************)
(* Two Runs at once: two Morphers that NewMorpher built with the same      *)
(* migrations and the default logger, each Run on its own connection to    *)
(* the same database. The database keeps the identifiers unique (id is the *)
(* PRIMARY KEY of the migration table) and isolates the transactions: what *)
(* a transaction wrote is seen by the other Run once it is committed, and  *)
(* an insert of an identifier that another open transaction has inserted   *)
(* does not succeed.                                                       *)
(***************************************************************************)
\* The identifiers of the rows, in the order of their application.
Ids(h) == [i \in 1..Len(h) |-> h[i].id]

\* The other Run.
Other(r) == 3 - r

\* The program has two Morphers with the same, valid, migrations and an empty
\* database.
InitTwo ==
    /\ options = <<>> /\ InitRun /\ NoStream /\ cmp = NoComparison
    /\ migrationSet \in MigrationLists \ {<<>>}
    /\ runners = [r \in Runners |-> IdleRunner(migrationSet)]
    /\ history = <<>>
    /\ visible = {}

\* What the actions of the two Runs leave alone.
TwoFrame ==
    /\ UNCHANGED runVars
    /\ UNCHANGED streamVars
    /\ UNCHANGED cmp
    /\ UNCHANGED migrationSet

\* Run r is called: IsValid passes and EnsureMigrationTableExists is called.
CallRunOf(r) ==
    /\ runners[r].pc = "idle"
    /\ \E ok \in BOOLEAN :
        runners' = [runners EXCEPT ![r] =
            IF ok THEN [@ EXCEPT !.pc = "applied"]
            ELSE [@ EXCEPT !.pc = "done", !.err = <<"could not create migration table">>]]
    /\ UNCHANGED <<history, visible>>
    /\ TwoFrame

\* Run r from AppliedMigrations, which reads the committed rows, to the call of
\* applyMigrations: the sort of the Morpher's own Migrations and the check of a
\* non-empty history.
AppliedMigrationsOf(r) ==
    /\ runners[r].pc = "applied"
    /\ \E ok \in BOOLEAN :
        runners' = [runners EXCEPT ![r] =
            IF ~ok
            THEN [@ EXCEPT !.pc = "done", !.err = <<"could not get applied migrations">>]
            ELSE IF Len(history) = 0
            THEN [@ EXCEPT !.Migrations = SortFunc(runners[r].Migrations),
                           !.pc = "loop", !.idx = 1]
            ELSE IF checkAppliedMigrations(Ids(history), SortFunc(runners[r].Migrations)) # <<>>
            THEN [@ EXCEPT !.Migrations = SortFunc(runners[r].Migrations),
                           !.appliedMigrations = Ids(history),
                           !.pc = "done",
                           !.err = checkAppliedMigrations(Ids(history),
                                                          SortFunc(runners[r].Migrations))]
            ELSE [@ EXCEPT !.Migrations = SortFunc(runners[r].Migrations),
                           !.appliedMigrations = Ids(history),
                           !.lastMigration = ResumePoint(Ids(history)),
                           !.pc = "loop", !.idx = 1]]
    /\ UNCHANGED <<history, visible>>
    /\ TwoFrame

\* applyMigrations of Run r has no migration left: it returns nil.
ApplyDoneOf(r) ==
    /\ runners[r].pc = "loop"
    /\ runners[r].idx > Len(runners[r].Migrations)
    /\ runners' = [runners EXCEPT ![r].pc = "done"]
    /\ UNCHANGED <<history, visible>>
    /\ TwoFrame

\* applyMigrations of Run r skips a migration whose key is not above lastMigration.
SkipAppliedOf(r) ==
    /\ runners[r].pc = "loop"
    /\ runners[r].idx <= Len(runners[r].Migrations)
    /\ AlreadyApplied(runners[r].lastMigration, runners[r].Migrations[runners[r].idx])
    /\ runners' = [runners EXCEPT ![r].idx = @ + 1]
    /\ UNCHANGED <<history, visible>>
    /\ TwoFrame

\* runOneMigration of Run r: db.BeginTx.
BeginTxOf(r) ==
    /\ runners[r].pc = "loop"
    /\ runners[r].idx <= Len(runners[r].Migrations)
    /\ ~AlreadyApplied(runners[r].lastMigration, runners[r].Migrations[runners[r].idx])
    /\ \E ok \in BOOLEAN :
        runners' = [runners EXCEPT ![r] =
            IF ok
            THEN [@ EXCEPT !.begun = Append(@, runners[r].Migrations[runners[r].idx]),
                           !.tx = [active |-> TRUE,
                                   key |-> runners[r].Migrations[runners[r].idx],
                                   migrated |-> FALSE, reg |-> FALSE],
                           !.pc = "migrate"]
            ELSE [@ EXCEPT !.begun = Append(@, runners[r].Migrations[runners[r].idx]),
                           !.pc = "done", !.err = <<"begin tx">>]]
    /\ UNCHANGED <<history, visible>>
    /\ TwoFrame

\* runOneMigration of Run r: mig.Migrate, in the transaction.
MigrateOf(r) ==
    /\ runners[r].pc = "migrate"
    /\ \E ok \in BOOLEAN :
        runners' = [runners EXCEPT ![r] =
            IF ok THEN [@ EXCEPT !.tx.migrated = TRUE, !.pc = "register"]
            ELSE [@ EXCEPT !.pc = "rollback", !.pendErr = <<"migrate">>]]
    /\ UNCHANGED <<history, visible>>
    /\ TwoFrame

\* The identifier is in no committed row and in no row the other Run's open
\* transaction has inserted: the insert can succeed.
CanInsert(r, key) ==
    /\ key \notin Range(Ids(history))
    /\ ~(runners[Other(r)].tx.active /\ runners[Other(r)].tx.reg
         /\ runners[Other(r)].tx.key = key)

\* runOneMigration of Run r: Dialect.RegisterMigration, in the transaction.
RegisterMigrationOf(r) ==
    /\ runners[r].pc = "register"
    /\ \E ok \in BOOLEAN :
        /\ ok => CanInsert(r, runners[r].tx.key)
        /\ runners' = [runners EXCEPT ![r] =
            IF ok THEN [@ EXCEPT !.tx.reg = TRUE, !.pc = "commit"]
            ELSE [@ EXCEPT !.pc = "rollback", !.pendErr = <<"register">>]]
    /\ UNCHANGED <<history, visible>>
    /\ TwoFrame

\* runOneMigration of Run r: tx.Commit, which writes the row and the effects of the
\* migration at once, or nothing.
CommitOf(r) ==
    /\ runners[r].pc = "commit"
    /\ \E ok \in BOOLEAN :
        IF ok
        THEN /\ history' = Append(history, [id |-> runners[r].tx.key, by |-> r])
             /\ visible' = visible \cup {[key |-> runners[r].tx.key, by |-> r]}
             /\ runners' = [runners EXCEPT ![r].tx = NoRunnerTx, ![r].idx = @ + 1,
                                           ![r].pc = "loop"]
        ELSE /\ runners' = [runners EXCEPT ![r].pc = "rollback", ![r].pendErr = <<"commit">>]
             /\ UNCHANGED <<history, visible>>
    /\ TwoFrame

\* A mutant of RollbackOf: after the rollback the loop goes on with the next
\* migration.
RollbackOfAndContinue(r) ==
    /\ runners[r].pc = "rollback"
    /\ runners' = [runners EXCEPT ![r].tx = NoRunnerTx, ![r].idx = @ + 1, ![r].pc = "loop"]
    /\ UNCHANGED <<history, visible>>
    /\ TwoFrame

\* runOneMigration of Run r after a failure: tx.Rollback(), whose error is joined;
\* Run returns the error.
RollbackOf(r) ==
    /\ runners[r].pc = "rollback"
    /\ \E ok \in BOOLEAN :
        runners' = [runners EXCEPT ![r].tx = NoRunnerTx, ![r].pc = "done",
                                   ![r].err = JoinRollback(runners[r].pendErr, ok)]
    /\ UNCHANGED <<history, visible>>
    /\ TwoFrame

NextTwo ==
    \E r \in Runners :
        \/ CallRunOf(r)
        \/ AppliedMigrationsOf(r)
        \/ ApplyDoneOf(r)
        \/ SkipAppliedOf(r)
        \/ BeginTxOf(r)
        \/ MigrateOf(r)
        \/ RegisterMigrationOf(r)
        \/ CommitOf(r)
        \/ RollbackOf(r)

SpecTwo == InitTwo /\ [][NextTwo]_vars


(***************************************************************************)
(* Vocabulary of the properties.                                           *)
(***************************************************************************)
\* The keys of ms are pairwise distinct.
DistinctKeys(ms) == \A i, j \in 1..Len(ms) : i # j => ms[i] # ms[j]

\* No key of ms is the empty string.
NonEmptyKeys(ms) == \A i \in 1..Len(ms) : ms[i] # <<>>

\* The greatest string of a non-empty set.
Greatest(S) == CHOOSE k \in S : \A j \in S : ~StrLess(k, j)

\* s is a prefix of t.
IsPrefix(s, t) == Len(s) <= Len(t) /\ \A i \in 1..Len(s) : s[i] = t[i]

\* t without its first n elements.
Drop(t, n) == [i \in 1..(Len(t) - n) |-> t[i + n]]

\* s is in ascending order (equal neighbours allowed).
Ascending(s) == \A i, j \in 1..Len(s) : i < j => ~StrLess(s[j], s[i])

\* Run has returned (it is not running, and it did not panic).
RunReturned == pc = "done"

\* Run returned because a call to the backend, the migration or the context failed
\* though it could have succeeded: everything but a RegisterMigration that the
\* primary key forbids.
EnvFailure ==
    /\ err # <<>>
    /\ \/ err[1] \in {"could not create migration table",
                      "could not get applied migrations",
                      "context cancelled before migration",
                      "begin tx", "migrate", "commit"}
       \/ err[1] = "register" /\ tx.key \notin Range(rows)

\* The Morpher of this Run is one NewMorpher accepts.
Accepted == IsValid(Dialect, Migrations, TableName) = <<>>

\* This Run, of an accepted Morpher, follows at once a Run that returned nil, with
\* the same migrations.
SameSetAgain ==
    /\ Accepted
    /\ prevMigrations # <<>>
    /\ prevMigrations = SortedBy(Migrations)

\* The statements of key k that are visible in the database.
Visible(k) == {e \in effects : e[1] = k}

(***************************************************************************)
(* C1. Idempotence.                                                        *)
(***************************************************************************)
\* C1 as stated: whenever a Run with the same migrations follows at once a Run
\* that returned nil, and no backend call of it fails, it returns nil, begins no
\* transaction and registers no row. Fails for Migrations = <<"", "b">>.
C1_IdempotenceAnyConfiguration ==
    (RunReturned /\ SameSetAgain /\ ~EnvFailure)
        => (err = <<>> /\ begun = <<>> /\ rows = rows0)

\* C1 amended: for migrations with non-empty, pairwise distinct keys, a Run with
\* the same migrations that follows at once a Run that returned nil begins no
\* transaction and registers no row, and it returns nil unless
\* EnsureMigrationTableExists or AppliedMigrations fails.
C1_Idempotence ==
    (RunReturned /\ SameSetAgain /\ DistinctKeys(Migrations) /\ NonEmptyKeys(Migrations))
        => /\ begun = <<>>
           /\ rows = rows0
           /\ err # <<>> => err[1] \in {"could not create migration table",
                                        "could not get applied migrations"}

\* C1 happens: the second Run of two migrations has returned nil.
C1_Witness ==
    /\ RunReturned /\ SameSetAgain
    /\ DistinctKeys(Migrations) /\ NonEmptyKeys(Migrations)
    /\ Len(Migrations) = 2 /\ rows = Migrations
    /\ err = <<>>

(***************************************************************************)
(* C2. Partial-failure atomicity.                                          *)
(***************************************************************************)
\* Migrate failed after executing some statements, and Run has returned.
MigrateFailedPartway ==
    /\ RunReturned
    /\ err # <<>> /\ err[1] = "migrate"
    /\ tx.stmts > 0

\* C2 as stated: after a Migrate that failed partway, no row with the migration's
\* key exists and none of its statements is visible. Fails when an earlier
\* migration of the same Run has the same key.
C2_AtomicityAnyKeys ==
    MigrateFailedPartway => (tx.key \notin Range(rows) /\ Visible(tx.key) = {})

\* C2 amended: when the configured keys are pairwise distinct, after a Migrate that
\* failed partway the transaction is rolled back, no row with the migration's key
\* exists and none of its statements is visible.
C2_Atomicity ==
    (MigrateFailedPartway /\ DistinctKeys(Migrations))
        => /\ tx.state = "rolledback"
           /\ tx.key \notin Range(rows)
           /\ Visible(tx.key) = {}

\* C2 happens: the second of two migrations failed partway, the first is committed.
C2_Witness ==
    /\ MigrateFailedPartway /\ DistinctKeys(Migrations)
    /\ Len(begun) = 2
    /\ rows = <<begun[1]>>

(***************************************************************************)
(* C3. Stop on first failure.                                              *)
(***************************************************************************)
\* Run has returned the failure of Migrate, RegisterMigration or Commit.
CallFailed ==
    /\ RunReturned
    /\ err # <<>> /\ err[1] \in {"migrate", "register", "commit"}

\* C3: when Migrate, RegisterMigration or Commit fails, the next step of the Run
\* is the rollback with which it returns that error; the transaction is then
\* rolled back, the failing migration is the last one begun, and no transaction
\* is begun after it in that Run.
C3_StopOnFirstFailure ==
    /\ [](CallFailed => /\ tx.state = "rolledback"
                        /\ begun # <<>> /\ begun[Len(begun)] = tx.key
                        /\ Len(begun) <= idx /\ Migrations[idx] = tx.key)
    /\ [][pc = "rollback" => /\ pc' \in {"rollback", "done"}
                             /\ begun' = begun
                             /\ pc' = "done" => (err' # <<>> /\ err'[1] = pendErr[1])]_vars
    /\ [][CallFailed => Len(begun') <= Len(begun)]_vars

\* C3 happens: a call failed for a migration with one to apply after it, which
\* was not begun.
C3_Witness ==
    /\ CallFailed
    /\ idx < Len(Migrations)
    /\ ~AlreadyApplied(lastMigration, Migrations[idx + 1])
    /\ Migrations[idx + 1] \notin Range(begun)

(***************************************************************************)
(* C4. The protocol of one migration.                                      *)
(***************************************************************************)
\* The calls on one transaction come in the order BeginTx, Migrate,
\* RegisterMigration, Commit, each only after the one before it returned nil.
ProtocolOrder(c) ==
    /\ c # <<>> => c[1][1] = "BeginTx"
    /\ \A i \in 2..Len(c) :
        /\ c[i][1] # "BeginTx"
        /\ c[i][1] = "Migrate" => (i = 2 /\ c[1] = <<"BeginTx", TRUE>>)
        /\ c[i][1] = "RegisterMigration" => (i = 3 /\ c[2] = <<"Migrate", TRUE>>)
        /\ c[i][1] = "Commit" => (i = 4 /\ c[3] = <<"RegisterMigration", TRUE>>)

\* C4: for every migration executed the calls follow the protocol order on its
\* transaction, and a Run adds a row only by the successful Commit of that
\* protocol, together with all the statements of the row's migration.
C4_Protocol ==
    /\ [](/\ ProtocolOrder(calls)
          /\ tx.state # "none" <=> (calls # <<>> /\ calls[1] = <<"BeginTx", TRUE>>))
    /\ [][(~Returned /\ rows' # rows) =>
            /\ calls' = <<<<"BeginTx", TRUE>>, <<"Migrate", TRUE>>,
                          <<"RegisterMigration", TRUE>>, <<"Commit", TRUE>>,
                          <<"Rollback", FALSE>>>>
            /\ tx'.state = "committed"
            /\ rows' = Append(rows, tx.key)
            /\ {e \in effects' : e[1] = tx.key} = {<<tx.key, i>> : i \in 1..MaxStmts}
            /\ {e \in effects' : e[1] # tx.key} = {e \in effects : e[1] # tx.key}]_vars

\* C4 happens: a migration went through the whole protocol and is committed.
C4_Witness ==
    /\ tx.state = "committed"
    /\ Len(calls) = 5
    /\ tx.key \in Range(rows)
    /\ Cardinality(Visible(tx.key)) = MaxStmts

(***************************************************************************)
(* C5. Execution order.                                                    *)
(***************************************************************************)
\* C5: the migrations begun in one Run are begun in ascending order of their keys.
C5_AscendingOrder == Ascending(begun)

\* C5 happens: two migrations given in descending order were both applied.
C5_Witness ==
    /\ RunReturned /\ err = <<>>
    /\ reordered
    /\ Len(begun) = 2 /\ StrLess(begun[1], begun[2])

(***************************************************************************)
(* C6. Continuation across runs.                                           *)
(***************************************************************************)
\* This Run, of an accepted Morpher, follows at once a Run that returned nil and
\* whose sorted keys are a prefix of this Run's sorted keys.
ContinuesPrevious ==
    /\ Accepted
    /\ prevMigrations # <<>>
    /\ IsPrefix(prevMigrations, SortedBy(Migrations))

\* The migrations of this Run that the Run before did not have, in ascending order.
Remainder == Drop(SortedBy(Migrations), Len(prevMigrations))

\* C6 as stated: the continuing Run, when none of its calls fails, returns nil and
\* executes exactly the remainder. Fails for Migrations = <<"", "b">> run twice.
C6_ContinuationAnyKeys ==
    (RunReturned /\ ContinuesPrevious /\ ~EnvFailure)
        => (err = <<>> /\ begun = Remainder)

\* C6 amended: when the keys of the second set are non-empty and pairwise distinct,
\* the continuing Run begins only migrations of the remainder, in ascending order
\* and none of the first set; and when none of its calls fails it returns nil,
\* having executed and registered exactly the remainder.
C6_Continuation ==
    (RunReturned /\ ContinuesPrevious
        /\ DistinctKeys(Migrations) /\ NonEmptyKeys(Migrations))
        => /\ IsPrefix(begun, Remainder)
           /\ \A i \in 1..Len(begun) : begun[i] \notin Range(prevMigrations)
           /\ ~EnvFailure => (err = <<>> /\ begun = Remainder /\ rows = rows0 \o Remainder)

\* C6 happens: after a Run of one migration, a Run of two has applied the second.
C6_Witness ==
    /\ RunReturned /\ ContinuesPrevious
    /\ DistinctKeys(Migrations) /\ NonEmptyKeys(Migrations)
    /\ err = <<>>
    /\ Len(prevMigrations) = 1 /\ Len(begun) = 1
    /\ rows = prevMigrations \o begun

(***************************************************************************)
(* C7 to C10. The consistency check of a non-empty applied history. The    *)
(* conditions are stated on the list AppliedMigrations returned and on the *)
(* configured keys, whatever their order.                                  *)
(***************************************************************************)
\* AppliedMigrations returned a non-empty history and no error, and Run is past
\* its check.
Checked ==
    /\ appliedMigrations # <<>>
    /\ pc # "check"
    /\ ~(RunReturned /\ err = <<"could not get applied migrations">>)

\* The history is not in ascending order of its identifiers.
HistoryUnsorted == ~Ascending(appliedMigrations)

\* The greatest configured key is less than the greatest applied identifier.
HistoryTooOld ==
    StrLess(Greatest(Range(Migrations)), Greatest(Range(appliedMigrations)))

\* Fewer migrations are configured than were applied.
HistoryLonger == Len(Migrations) < Len(appliedMigrations)

\* At some position of the history the sorted configured key differs.
HistoryMismatch ==
    \E i \in 1..Min(Len(appliedMigrations), Len(Migrations)) :
        SortedBy(Migrations)[i] # appliedMigrations[i]

\* The Run has ended at its check: no transaction was begun and no row changed.
NothingApplied ==
    /\ pc \in {"done", "panic"}
    /\ begun = <<>>
    /\ tx = NoTx
    /\ rows = rows0

\* C7: when the history is non-empty and sorted and the greatest configured key is
\* less than the greatest applied identifier, the Run ends at the check, with
\* ErrMigrationsTooOld when it returns, no transaction begun and the rows unchanged.
C7_TooOld ==
    (Checked /\ ~HistoryUnsorted /\ HistoryTooOld)
        => (NothingApplied /\ (RunReturned => err = <<"ErrMigrationsTooOld">>))

\* C7 happens: the history "ab", "b" met the single migration "ab".
C7_Witness ==
    /\ Checked /\ ~HistoryUnsorted /\ HistoryTooOld
    /\ RunReturned /\ err = <<"ErrMigrationsTooOld">>
    /\ Len(appliedMigrations) = 2

\* C8: when the history is sorted and not too old, and fewer migrations are
\* configured than applied or a sorted configured key differs from the applied
\* identifier at its position, the Run ends at the check, with
\* ErrMigrationsUnrelated when it returns, and applies nothing.
C8_Unrelated ==
    (Checked /\ ~HistoryUnsorted /\ ~HistoryTooOld /\ (HistoryLonger \/ HistoryMismatch))
        => (NothingApplied /\ (RunReturned => err = <<"ErrMigrationsUnrelated">>))

\* C8 happens: as many migrations as applied identifiers, the last ones equal, the
\* first ones different.
C8_Witness ==
    /\ Checked /\ ~HistoryUnsorted /\ ~HistoryTooOld /\ ~HistoryLonger
    /\ Len(appliedMigrations) = 2
    /\ Migrations[1] # appliedMigrations[1]
    /\ Migrations[2] = appliedMigrations[2]
    /\ RunReturned /\ err = <<"ErrMigrationsUnrelated">>

\* C9: when the identifiers AppliedMigrations returned are not in ascending order,
\* the Run ends at the check, with ErrMigrationsUnsorted when it returns, no
\* transaction begun and the rows left as they were.
C9_Unsorted ==
    (Checked /\ HistoryUnsorted)
        => (NothingApplied /\ (RunReturned => err = <<"ErrMigrationsUnsorted">>))

\* C9 happens: a history in descending order, found by a Run whose migrations are
\* exactly the applied ones.
C9_Witness ==
    /\ Checked /\ HistoryUnsorted
    /\ Range(Migrations) = Range(appliedMigrations)
    /\ RunReturned /\ err = <<"ErrMigrationsUnsorted">>

\* C10: when several conditions hold at once, the error is that of the first in
\* the order unsorted, too old, unrelated: an unsorted history is reported as
\* unsorted whatever else holds, and a sorted one that is too old and also
\* unrelated (by length or by mismatch) as too old.
C10_Precedence ==
    (Checked /\ RunReturned)
        => /\ (HistoryUnsorted /\ (HistoryTooOld \/ HistoryLonger \/ HistoryMismatch))
                => err = <<"ErrMigrationsUnsorted">>
           /\ (~HistoryUnsorted /\ HistoryTooOld /\ (HistoryLonger \/ HistoryMismatch))
                => err = <<"ErrMigrationsTooOld">>

\* C10 happens: an unsorted history that is also too old was reported as unsorted.
C10_Witness ==
    /\ Checked /\ RunReturned
    /\ HistoryUnsorted /\ HistoryTooOld
    /\ err = <<"ErrMigrationsUnsorted">>

(***************************************************************************)
(* C11. The documentation of Run: applied superset of configured.          *)
(***************************************************************************)
\* The applied identifiers are a proper superset of the configured keys.
AppliedSuperset ==
    /\ Range(Migrations) \subseteq Range(appliedMigrations)
    /\ Range(Migrations) # Range(appliedMigrations)

\* C11 as documented: when Run has read a sorted history whose identifiers are a
\* proper superset of the configured keys, it returns ErrMigrationsTooOld. Fails
\* for the history "ab", "b" and the single migration "b": the greatest key is
\* not less than the last applied one, and Run returns ErrMigrationsUnrelated.
C11_SupersetTooOld ==
    (Checked /\ RunReturned /\ ~HistoryUnsorted /\ AppliedSuperset)
        => err = <<"ErrMigrationsTooOld">>

(***************************************************************************)
(* C12. Construction validity.                                             *)
(***************************************************************************)
\* The positions of the options of one constructor in an option list.
OptionsOf(os, name) == {i \in 1..Len(os) : os[i].opt = name}

\* The last position of a non-empty set of positions.
Last(S) == CHOOSE i \in S : \A j \in S : j <= i

\* Every option of the list returns nil: every table name given matches the
\* allow-list and every directory given can be read.
OptionsSucceed(os) ==
    /\ \A i \in OptionsOf(os, "WithTableName") :
            Len(os[i].tableName) >= 1 /\ \A c \in Range(os[i].tableName) : c \in ValidNameChars
    /\ \A i \in OptionsOf(os, "WithMigrationsFromFS") : ~os[i].readErr

\* The configuration the options describe: the dialect and the logger given last,
\* all the migrations given, the table name given last or the default one.
ConfiguredDialect(os) ==
    OptionsOf(os, "WithDialect") # {} /\ os[Last(OptionsOf(os, "WithDialect"))].dialect

ConfiguredTableName(os) ==
    IF OptionsOf(os, "WithTableName") = {} THEN MigrationTableName
    ELSE os[Last(OptionsOf(os, "WithTableName"))].tableName

ConfiguredLog(os) ==
    IF OptionsOf(os, "WithLog") = {} THEN "default"
    ELSE os[Last(OptionsOf(os, "WithLog"))].log

\* NewMorpher has returned.
NewMorpherReturned == built.state \in {"morpher", "error"}

\* C12: NewMorpher returns a Morpher and no error if and only if its options all
\* succeed and the configuration they describe has a dialect, at least one
\* migration and a table name of one or more allowed characters, the default name
\* when none is given; the Morpher then holds that configuration. Otherwise it
\* returns an error and no Morpher.
C12_ConstructionValidity ==
    NewMorpherReturned =>
        /\ built.state = "morpher" <=>
                /\ OptionsSucceed(options)
                /\ ConfiguredDialect(options)
                /\ Len(OptionMigrations(options)) >= 1
                /\ Len(ConfiguredTableName(options)) >= 1
                /\ \A c \in Range(ConfiguredTableName(options)) : c \in ValidNameChars
        /\ built.state = "morpher" =>
                /\ built.err = <<>>
                /\ built.m = Morpher(TRUE, OptionMigrations(options),
                                     ConfiguredTableName(options), ConfiguredLog(options))
        /\ built.state = "error" => (built.err # <<>> /\ built.m = NoBuilt.m)

\* C12 happens: a Morpher was built from a dialect, a migration and a table name.
C12_Witness ==
    /\ built.state = "morpher"
    /\ Len(options) = 3
    /\ built.m.TableName = <<1>>

(***************************************************************************)
(* C13. Configuration errors come before any database access.              *)
(***************************************************************************)
\* The errors of an invalid configuration.
ConfigErrors ==
    {<<"ErrNoDialect">>, <<"ErrNoMigrations">>, <<"ErrNoMigrationTable">>,
     <<"ErrMigrationTableNameInvalid">>}

\* The Morpher value Run was called on has no dialect, no migration, or a table
\* name that is empty or has a character outside the allow-list.
MorpherInvalid ==
    \/ ~Dialect
    \/ Migrations = <<>>
    \/ TableName = <<>>
    \/ \E c \in Range(TableName) : c \notin ValidNameChars

\* The options describe no valid configuration: one of them fails, or no dialect,
\* no migration or a bad table name comes out of them.
OptionsInvalid(os) ==
    \/ ~OptionsSucceed(os)
    \/ ~ConfiguredDialect(os)
    \/ OptionMigrations(os) = <<>>
    \/ ConfiguredTableName(os) = <<>>
    \/ \E c \in Range(ConfiguredTableName(os)) : c \notin ValidNameChars

\* The Run has called no Dialect operation, begun no transaction and changed
\* nothing in the database.
NoDatabaseAccess ==
    /\ dialectCalls = <<>>
    /\ begun = <<>>
    /\ tx = NoTx
    /\ rows = rows0

\* C13: Morpher.Run on a Morpher value with an invalid configuration, and the
\* package's Run with options that describe none, return the configuration error
\* (the package's Run: the error of NewMorpher) having called no Dialect
\* operation and begun no transaction.
C13_ConfigErrorsFirst ==
    /\ (pc # "idle" /\ built.state \in {"none", "morpher"} /\ MorpherInvalid)
            => (pc = "done" /\ err \in ConfigErrors /\ NoDatabaseAccess)
    /\ (pc # "idle" /\ options # <<>> /\ OptionsInvalid(options))
            => /\ pc \in {"done", "panic"}
               /\ pc = "done" =>
                    /\ err = built.err
                    /\ err \in ConfigErrors \cup {<<"could not read directory">>}
               /\ NoDatabaseAccess

\* C13 happens: the package's Run was given a dialect and a table name but no
\* migration, and has returned ErrNoMigrations.
C13_Witness ==
    /\ pc = "done" /\ options # <<>> /\ OptionsInvalid(options)
    /\ ConfiguredDialect(options)
    /\ err = <<"ErrNoMigrations">>
    /\ NoDatabaseAccess

(***************************************************************************)
(* C14. Logger fallback.                                                   *)
(***************************************************************************)
\* C14 as stated: a Run of a Morpher that passes IsValid never panics, whatever
\* its logger. Fails for a Morpher whose Log is nil (set by WithLog(nil), or never
\* set in a Morpher value): the first log call of Run dereferences it.
C14_LoggerFallback == Accepted => pc # "panic"

(***************************************************************************)
(* C15. Cancellation between migrations.                                   *)
(***************************************************************************)
\* The loop is at a migration that is to be executed.
AtMigrationToApply ==
    /\ pc = "loop"
    /\ idx <= Len(Migrations)
    /\ StrLess(lastMigration, Migrations[idx])

\* Run has returned the error of the cancelled context.
ReturnedCancelled == RunReturned /\ err = <<"context cancelled before migration">>

\* Every statement of the migration with key k is visible.
AllVisible(k) == Visible(k) = {<<k, i>> : i \in 1..MaxStmts}

\* C15: a transaction is begun only with a context that is not cancelled; when the
\* loop is at a migration to execute and the context is cancelled, the next step
\* is Run's return of the context error, with no transaction begun and the
\* database as it was; and at that return the migrations begun earlier in the Run
\* are all committed and registered, after the rows the Run found.
C15_CancelBetweenMigrations ==
    /\ [][(~Returned /\ begun' # begun) => ~ctxErr]_vars
    /\ [][(AtMigrationToApply /\ ctxErr) =>
            /\ pc' = "done"
            /\ err' = <<"context cancelled before migration">>
            /\ begun' = begun /\ tx' = tx
            /\ rows' = rows /\ effects' = effects]_vars
    /\ [](ReturnedCancelled =>
            /\ rows = rows0 \o begun
            /\ \A i \in 1..Len(begun) : AllVisible(begun[i])
            /\ tx.state \in {"none", "committed"}
            /\ Len(begun) < idx)

\* C15 happens: the context was cancelled after the first of two migrations was
\* committed, and Run returned before the second.
C15_Witness ==
    /\ ReturnedCancelled
    /\ Len(Migrations) = 2 /\ idx = 2
    /\ begun = <<Migrations[1]>>
    /\ rows = rows0 \o begun

(***************************************************************************)
(* C16. Transaction discipline.                                            *)
(***************************************************************************)
\* The transaction has ended.
TxEnded(t) == t.state \in {"committed", "rolledback"}

\* C16: db.BeginTx is called only when no transaction of the Run is active, so
\* that at most one is active at any time; a transaction that has ended stays as
\* it ended (the deferred rollback after a commit changes nothing) until the next
\* one is begun; and when Run returns its last transaction has ended, committed
\* exactly when its Commit returned nil and rolled back otherwise.
C16_TransactionDiscipline ==
    /\ [][(~Returned /\ begun' # begun) => tx.state # "active"]_vars
    /\ [][(~Returned /\ TxEnded(tx) /\ begun' = begun) =>
            (tx' = tx /\ rows' = rows /\ effects' = effects)]_vars
    /\ [](RunReturned =>
            /\ tx.state # "active"
            /\ tx.state = "committed" <=> <<"Commit", TRUE>> \in Range(calls)
            /\ tx.state = "rolledback" <=>
                    /\ <<"BeginTx", TRUE>> \in Range(calls)
                    /\ <<"Commit", TRUE>> \notin Range(calls))

\* C16 happens: Run returned after two transactions, the first committed, the
\* second rolled back.
C16_Witness ==
    /\ RunReturned
    /\ Len(begun) = 2
    /\ rows = Append(rows0, begun[1])
    /\ tx.state = "rolledback" /\ tx.key = begun[2]

(***************************************************************************)
(* C17. The resume point.                                                  *)
(***************************************************************************)
\* The resume point of a Run that has read the history: the last applied
\* identifier, and the empty string (Run's lastMigration := "") for no history.
ResumeKey ==
    IF appliedMigrations = <<>> THEN <<>> ELSE appliedMigrations[Len(appliedMigrations)]

\* The keys of s that are greater than r, in the order of s.
RECURSIVE KeysAbove(_, _)
KeysAbove(s, r) ==
    IF s = <<>> THEN <<>>
    ELSE IF StrLess(r, Head(s)) THEN <<Head(s)>> \o KeysAbove(Tail(s), r)
    ELSE KeysAbove(Tail(s), r)

\* Run is in applyMigrations or has returned from it.
InApply == idx >= 1

\* The number of migrations the loop is through: the one at idx is counted once
\* its transaction was asked for.
Through ==
    IF pc = "loop" \/ (pc = "done" /\ err \in {<<>>, <<"context cancelled before migration">>})
    THEN idx - 1 ELSE idx

C18_AppendOnly ==
    /\ [][IsPrefix(rows, rows')]_vars
    /\ [](IsPrefix(rows0, rows))

\* C18 happens: a Run that found rows has returned with one more.
C18_Witness ==
    /\ RunReturned
    /\ rows0 # <<>>
    /\ Len(rows) = Len(rows0) + 1
    /\ IsPrefix(rows0, rows)

(***************************************************************************)
(* C19. Only the failing transaction is undone.                            *)
(***************************************************************************)
\* Run has returned the failure of BeginTx, Migrate, RegisterMigration or Commit.
MigrationFailed ==
    /\ RunReturned
    /\ err # <<>> /\ err[1] \in {"begin tx", "migrate", "register", "commit"}

\* s without its last element.
Front(s) == SubSeq(s, 1, Len(s) - 1)

\* C19: when a migration fails, the migrations begun before it in the Run are all
\* committed: their rows follow the rows the Run found and their statements are
\* visible; the rollback changes no row and no statement of another key, and the
\* one transaction rolled back is that of the failing migration.
C19_OnlyFailingUndone ==
    /\ [](MigrationFailed =>
            /\ rows = rows0 \o Front(begun)
            /\ \A i \in 1..(Len(begun) - 1) : AllVisible(begun[i])
            /\ tx.state = "rolledback" => tx.key = begun[Len(begun)])
    /\ [][pc = "rollback" =>
            /\ rows' = rows
            /\ \A k \in Keys : k # tx.key =>
                    {e \in effects' : e[1] = k} = {e \in effects : e[1] = k}]_vars

\* C19 happens: the second of two migrations with different keys failed at
\* RegisterMigration; the first is committed.
C19_Witness ==
    /\ MigrationFailed /\ err[1] = "register"
    /\ Len(begun) = 2 /\ begun[1] # begun[2]
    /\ rows = Append(rows0, begun[1])
    /\ AllVisible(begun[1])
    /\ tx.state = "rolledback"

(***************************************************************************)
(* C20. Joined cleanup errors.                                             *)
(***************************************************************************)
\* The error of each call of the protocol that can fail.
CallError(name) ==
    CASE name = "Migrate" -> "migrate"
      [] name = "RegisterMigration" -> "register"
      [] name = "Commit" -> "commit"
      [] OTHER -> "none"

\* C20: when Run returns the failure of Migrate, RegisterMigration or Commit, the
\* calls on the transaction end with the failed call, the rollback and the
\* deferred rollback; the error returned holds the failed call's error, and with
\* it the rollback's error exactly when the rollback failed.
C20_JoinedErrors ==
    CallFailed =>
        /\ Len(calls) >= 4
        /\ calls[Len(calls) - 2][2] = FALSE
        /\ calls[Len(calls) - 1][1] = "Rollback"
        /\ err[1] = CallError(calls[Len(calls) - 2][1])
        /\ ~calls[Len(calls) - 1][2] => err = <<err[1], "rollback">>
        /\ calls[Len(calls) - 1][2] => err = <<err[1]>>

\* C20 happens: Commit failed, the rollback failed too, and Run returned both.
C20_Witness ==
    /\ CallFailed
    /\ calls[Len(calls) - 1] = <<"Rollback", FALSE>>
    /\ err = <<"commit", "rollback">>

(***************************************************************************)
(* C21. The phases of a Run, in order.                                     *)
(***************************************************************************)
\* The phase a Run is in: 0 not running, 1 EnsureMigrationTableExists,
\* 2 AppliedMigrations, 3 the consistency check, 4 the apply loop.
Phase(p) ==
    CASE p = "ensure" -> 1
      [] p = "applied" -> 2
      [] p = "check" -> 3
      [] p \in {"loop", "migrate", "register", "commit", "rollback"} -> 4
      [] OTHER -> 0

\* The errors of the consistency check.
CheckErrors ==
    {<<"ErrMigrationsUnsorted">>, <<"ErrMigrationsTooOld">>, <<"ErrMigrationsUnrelated">>}

\* The history AppliedMigrations returned passes the consistency check.
HistoryConsistent ==
    ~HistoryUnsorted /\ ~HistoryTooOld /\ ~HistoryLonger /\ ~HistoryMismatch

\* A step of a Run goes to the next phase, stays in the apply loop, or ends the Run.
PhaseStep ==
    \/ pc' = pc
    \/ Phase(pc') = 0
    \/ Phase(pc') = Phase(pc) + 1
    \/ Phase(pc') = 4 /\ Phase(pc) = 4

\* The Dialect operations called so far are those of the phases up to n.
CalledThrough(n) ==
    /\ Len(dialectCalls) >= Min(n, 2)
    /\ n >= 1 => dialectCalls[1] = "EnsureMigrationTableExists"
    /\ n >= 2 => dialectCalls[2] = "AppliedMigrations"
    /\ \A i \in 3..Len(dialectCalls) : dialectCalls[i] = "RegisterMigration"
    /\ n < 4 => Len(dialectCalls) <= n /\ begun = <<>> /\ tx = NoTx /\ rows = rows0

\* C21: a Run goes through validation, EnsureMigrationTableExists, AppliedMigrations,
\* the consistency check and the apply loop in this order, a phase beginning only
\* when the one before succeeded (the check only fails on a non-empty history);
\* the error of a phase ends the Run with the operations of no later phase called,
\* and a transaction is begun only after a valid configuration, both Dialect
\* operations and, for a non-empty history, a passed check.
C21_PhaseOrder ==
    /\ [][PhaseStep]_vars
    /\ [](/\ Phase(pc) \in 1..3 => CalledThrough(Phase(pc) - 1)
          /\ Phase(pc) > 0 => Accepted /\ err = <<>>
          /\ Phase(pc) = 4 => CalledThrough(4)
          /\ Phase(pc) = 4 => appliedMigrations = <<>> \/ HistoryConsistent
          /\ begun # <<>> => /\ Accepted
                             /\ CalledThrough(4)
                             /\ appliedMigrations = <<>> \/ HistoryConsistent
          /\ RunReturned /\ err \in ConfigErrors => CalledThrough(0)
          /\ RunReturned /\ err = <<"could not create migration table">> => CalledThrough(1)
          /\ RunReturned /\ err = <<"could not get applied migrations">> => CalledThrough(2)
          /\ RunReturned /\ err \in CheckErrors =>
                CalledThrough(2) /\ appliedMigrations # <<>> /\ ~HistoryConsistent)

\* C21 happens: a Run on a non-empty history has gone through every phase and has
\* begun a transaction.
C21_Witness ==
    /\ appliedMigrations # <<>>
    /\ begun # <<>>
    /\ dialectCalls[1] = "EnsureMigrationTableExists"
    /\ dialectCalls[2] = "AppliedMigrations"

(***************************************************************************)
(* C27. A failure of BeginTx, RegisterMigration or Commit.                 *)
(***************************************************************************)
\* Run has returned the failure of BeginTx, RegisterMigration or Commit.
BeginRegisterCommitFailed ==
    /\ RunReturned
    /\ err # <<>> /\ err[1] \in {"begin tx", "register", "commit"}

\* The key of the migration begun last in this Run.
LastBegun == begun[Len(begun)]

\* C27 as stated: after a failure of BeginTx, RegisterMigration or Commit, Run has
\* returned an error, no row has the key of the failing migration, none of its
\* statements is visible, and no migration is begun after it. Fails when an
\* earlier migration of the same Run has the same key.
C27_FailureAnyKeys ==
    /\ [](BeginRegisterCommitFailed =>
            /\ LastBegun \notin Range(rows)
            /\ Visible(LastBegun) = {}
            /\ Len(begun) <= idx /\ Migrations[idx] = LastBegun)
    /\ [][BeginRegisterCommitFailed => Len(begun') <= Len(begun)]_vars

\* C27 amended: when the configured keys are pairwise distinct, after a failure of
\* BeginTx, RegisterMigration or Commit, Run has returned an error, no row has the
\* key of the failing migration, none of its statements is visible, and no
\* migration is begun after it.
C27_Failure ==
    /\ [](BeginRegisterCommitFailed /\ DistinctKeys(Migrations) =>
            /\ LastBegun \notin Range(rows)
            /\ Visible(LastBegun) = {}
            /\ Len(begun) <= idx /\ Migrations[idx] = LastBegun)
    /\ [][BeginRegisterCommitFailed => Len(begun') <= Len(begun)]_vars

\* C27 happens: the Commit of the first of two migrations with different keys
\* failed after all its statements ran; the second one was not begun.
C27_Witness ==
    /\ BeginRegisterCommitFailed /\ err[1] = "commit"
    /\ DistinctKeys(Migrations)
    /\ Len(Migrations) = 2 /\ Len(begun) = 1
    /\ tx.stmts = MaxStmts /\ tx.reg

(***************************************************************************)
(* C28. The precedence of the validation.                                  *)
(***************************************************************************)
\* Run was called on a Morpher value and its IsValid has returned.
Validated == pc # "idle"

\* IsValid returned the error e: Run returned it before any Dialect operation.
IsValidReturned(e) == RunReturned /\ err = e /\ dialectCalls = <<>>

\* The four checks, on the Morpher value Run was called on.
DialectAbsent == ~Dialect
NoMigration == Len(Migrations) = 0
TableNameEmpty == Len(TableName) = 0
TableNameNotAllowed == \E c \in Range(TableName) : c \notin ValidNameChars

\* C28: IsValid returns ErrNoDialect when the dialect is absent; else
\* ErrNoMigrations when there is no migration; else ErrNoMigrationTable when the
\* table name is empty; else ErrMigrationTableNameInvalid when the name does not
\* match the allow-list; and nil exactly when none of the four checks fails.
C28_ValidationPrecedence ==
    Validated =>
        /\ DialectAbsent => IsValidReturned(<<"ErrNoDialect">>)
        /\ ~DialectAbsent /\ NoMigration => IsValidReturned(<<"ErrNoMigrations">>)
        /\ ~DialectAbsent /\ ~NoMigration /\ TableNameEmpty =>
                IsValidReturned(<<"ErrNoMigrationTable">>)
        /\ ~DialectAbsent /\ ~NoMigration /\ ~TableNameEmpty /\ TableNameNotAllowed =>
                IsValidReturned(<<"ErrMigrationTableNameInvalid">>)
        /\ (\E e \in ConfigErrors : IsValidReturned(e))
                <=> (DialectAbsent \/ NoMigration \/ TableNameEmpty \/ TableNameNotAllowed)

\* C28 happens: three checks fail at once (no migration, and a table name that is
\* not empty and not allowed would fail too), and the first in the order is returned.
C28_Witness ==
    /\ DialectAbsent /\ NoMigration /\ TableNameNotAllowed
    /\ IsValidReturned(<<"ErrNoDialect">>)

(***************************************************************************)
(* C29. NewMorpher stops at the first option that fails.                   *)
(***************************************************************************)
\* The option o returns an error: a table name that is empty or does not match
\* the allow-list, or a directory that cannot be read.
OptionFails(o) ==
    \/ /\ o.opt = "WithTableName"
       /\ o.tableName = <<>> \/ \E c \in Range(o.tableName) : c \notin ValidNameChars
    \/ o.opt = "WithMigrationsFromFS" /\ o.readErr

\* The error of an option that fails.
OptionError(o) ==
    IF o.opt = "WithTableName" THEN <<"ErrMigrationTableNameInvalid">>
    ELSE <<"could not read directory">>

\* The position of the first option of os that fails.
FirstFailing(os) == CHOOSE i \in 1..Len(os) :
    OptionFails(os[i]) /\ \A j \in 1..(i - 1) : ~OptionFails(os[j])

\* The options of os before the position i.
Before(os, i) == SubSeq(os, 1, i - 1)

\* C29: when an option fails, NewMorpher returns the error of the first such
\* option and no Morpher, having applied the options before it and none after it:
\* the Morpher it worked on holds the configuration of the options before the
\* failing one, so a failing WithTableName leaves the table name as those options
\* set it (the default when none did), whatever a later option would have set.
C29_FailFastOptions ==
    (NewMorpherReturned /\ \E i \in 1..Len(options) : OptionFails(options[i])) =>
        /\ built.state = "error"
        /\ built.m = NoBuilt.m
        /\ built.err = OptionError(options[FirstFailing(options)])
        /\ built.applied = FirstFailing(options) - 1
        /\ built.inner =
            Morpher(ConfiguredDialect(Before(options, FirstFailing(options))),
                    OptionMigrations(Before(options, FirstFailing(options))),
                    ConfiguredTableName(Before(options, FirstFailing(options))),
                    ConfiguredLog(Before(options, FirstFailing(options))))

\* C29 happens: WithTableName("m;") failed as the second of three options, after a
\* dialect and before WithTableName("m"); the table name is still the default.
C29_Witness ==
    /\ built.state = "error"
    /\ Len(options) = 3
    /\ options[1] = WithDialect(TRUE)
    /\ options[2] = WithTableName(<<1, 9>>)
    /\ options[3] = WithTableName(<<1>>)
    /\ built.err = <<"ErrMigrationTableNameInvalid">>
    /\ built.inner.TableName = MigrationTableName
    /\ built.inner.Dialect

(***************************************************************************)
(* C25. The contract of EnsureMigrationTableExists.                        *)
(***************************************************************************)
\* C25: an EnsureMigrationTableExists changes no row and no statement's effect;
\* unless the database fails one of its calls it succeeds, whether the table
\* existed or not, and on an existing table it changes nothing; when it succeeds
\* its transaction is committed and the table exists; when a statement or the
\* Commit fails, Run returns the error, the transaction is rolled back, the table
\* is as it was, and in no case is the transaction left open.
C25_EnsureTable ==
    [][pc = "ensure" /\ pc' # "ensure" =>
        /\ rows' = rows /\ effects' = effects
        /\ ensure'.inject = "none" => pc' = "applied"
        /\ pc' = "applied" => /\ ensure'.tx = "committed" /\ ensure'.err = <<>>
                              /\ tableExists'
        /\ pc' # "applied" => /\ pc' = "done"
                              /\ err' = <<"could not create migration table">>
                              /\ ensure'.err # <<>>
                              /\ tableExists' = tableExists
                              /\ ensure'.tx \in {"none", "rolledback"}
        /\ ensure'.inject \in {"exec", "commit"} =>
                pc' = "done" /\ ensure'.tx = "rolledback"]_vars

\* C25 happens: EnsureMigrationTableExists has succeeded on a table that holds
\* rows, and its transaction is committed.
C25_Witness ==
    /\ pc = "applied"
    /\ rows # <<>> /\ rows = rows0
    /\ tableExists
    /\ ensure.tx = "committed"

(***************************************************************************)
(* C26. A failure of AppliedMigrations.                                    *)
(***************************************************************************)
\* C26: when AppliedMigrations fails, what it returns with the error is the empty
\* list, and Run returns the error with no transaction begun and no row changed.
\* Fails: a failure of rows.Scan or of the iteration after some rows returns the
\* identifiers scanned so far with the error.
C26_ListAppliedFailure ==
    (RunReturned /\ err = <<"could not get applied migrations">>) =>
        /\ appliedMigrations = <<>>
        /\ begun = <<>>
        /\ tx = NoTx
        /\ rows = rows0

(***************************************************************************)
(* C22 to C24 and C30. The statement splitter, applyStepsStream.           *)
(***************************************************************************)
\* The positions of the lines ";" in the stream s.
Terminators(s) == {i \in 1..Len(s) : s[i] = Terminator}

\* The stream s cut at its lines ";": the groups of lines before each of them, in
\* order, and last the group after them all.
RECURSIVE Split(_)
Split(s) ==
    IF Terminators(s) = {} THEN <<s>>
    ELSE LET i == CHOOSE t \in Terminators(s) : \A u \in Terminators(s) : t <= u
         IN  <<SubSeq(s, 1, i - 1)>> \o Split(SubSeq(s, i + 1, Len(s)))

\* The lines g joined with newlines.
RECURSIVE Join(_)
Join(g) ==
    IF g = <<>> THEN <<>>
    ELSE IF Len(g) = 1 THEN g[1]
    ELSE g[1] \o <<Newline>> \o Join(Tail(g))

\* The lines g are a statement: none, or lines of which the first holds text that
\* is no comment.
IsStatement(g) == g # <<>> => (g[1] # <<>> /\ ~HasPrefix(g[1], CommentMarker))

\* The stream is statements each followed by a line ";", and a final non-empty
\* statement with no terminator.
StatementStream ==
    /\ \A i \in 1..Len(Split(reader)) : IsStatement(Split(reader)[i])
    /\ Split(reader)[Len(Split(reader))] # <<>>

\* applyStepsStream has returned.
StreamReturned == spc = "done"

\* C22: for a stream of k statements each followed by a line ";" and a final
\* non-empty statement, when no step before the final one fails applyStepsStream
\* has executed k + 1 texts when it returns: those of the statements in their
\* order, each the lines of its statement joined with newlines.
C22_BatchCount ==
    (StreamReturned /\ StatementStream /\ serr.kind # "apply migration step") =>
        /\ Len(executed) = Cardinality(Terminators(reader)) + 1
        /\ \A i \in 1..Len(executed) : executed[i].text = Join(Split(reader)[i])

\* C22 happens: two statements, each followed by ";", and a final statement that
\* differs from the second, which differs from the first; three texts were executed.
C22_Witness ==
    /\ StreamReturned /\ StatementStream
    /\ Cardinality(Terminators(reader)) = 2
    /\ Len(executed) = 3
    /\ \A i \in 1..3 : executed[i].ok
    /\ executed[1].text # executed[2].text
    /\ executed[2].text # executed[3].text

\* s ends with suffix.
HasSuffix(s, suffix) ==
    Len(s) >= Len(suffix) /\ SubSeq(s, Len(s) - Len(suffix) + 1, Len(s)) = suffix

\* The loop takes a line that begins with "--".
TakesComment ==
    /\ spc = "scan"
    /\ scanned' = scanned + 1
    /\ HasPrefix(reader[scanned + 1], CommentMarker)

\* C23: a line that begins with "--" is skipped when no line was accumulated since
\* the start of the stream or the last line ";": the text and the accumulated
\* lines stay as they are; when a line was accumulated before it, it is
\* accumulated too and the text ends with it, after a newline when there was text.
C23_LeadingComments ==
    [][TakesComment =>
        IF acc = <<>>
        THEN buf' = buf /\ acc' = acc /\ executed' = executed
        ELSE /\ acc' = Append(acc, reader[scanned + 1])
             /\ HasSuffix(buf', reader[scanned + 1])
             /\ buf # <<>> => buf' = buf \o <<Newline>> \o reader[scanned + 1]
             /\ executed' = executed]_vars

\* C23 happens: of the stream "b", "--a", ";", "--a", "b" the comment inside the
\* first step was executed with it and the comment that begins the second was not.
C23_Witness ==
    /\ StreamReturned
    /\ reader = <<<<2>>, <<4, 4, 1>>, Terminator, <<4, 4, 1>>, <<2>>>>
    /\ Len(executed) = 2
    /\ executed[1].text = <<2, Newline, 4, 4, 1>>
    /\ executed[2].text = <<2>>

\* The execution of a step has failed.
StepFailed == executed # <<>> /\ ~executed[Len(executed)].ok

\* C24: when the execution of a step fails it is the last execution of the stream:
\* applyStepsStream has returned, with an error of a step that names its
\* migrationID and the number of steps executed before the failed one; nothing is
\* scanned or executed after it. Only the failure of a step gives such an error.
C24_StepFailure ==
    /\ [](\A i \in 1..Len(executed) : ~executed[i].ok =>
            /\ i = Len(executed)
            /\ StreamReturned
            /\ serr.kind \in {"apply migration step", "apply migration step (final)"}
            /\ serr.id = migrationID
            /\ serr.step = i - 1)
    /\ [](serr.kind \in {"apply migration step", "apply migration step (final)"}
            => StepFailed)
    /\ [][StepFailed => executed' = executed /\ scanned' = scanned /\ serr' = serr]_vars

\* C24 happens: the second step failed with a third one left in the stream, and
\* the error names the step 1.
C24_Witness ==
    /\ StreamReturned
    /\ Len(executed) = 2
    /\ executed[1].ok /\ ~executed[2].ok
    /\ serr = [kind |-> "apply migration step", id |-> migrationID, step |-> 1]
    /\ scanned < Len(reader)
    /\ reader[Len(reader)] # Terminator

\* The lines accumulated hold text.
ContentRemains == \E i \in 1..Len(acc) : acc[i] # <<>>

\* C30: when applyStepsStream returns and no step before the final one has
\* failed, it has executed one text for every line ";" of the stream, the empty
\* text where nothing was accumulated, and one more exactly when text is left
\* accumulated after the last of them; before it returns, the executions are as
\* many as the lines ";" taken, and so is the number of the step.
C30_Terminators ==
    /\ (StreamReturned /\ serr.kind # "apply migration step") =>
            Len(executed) = Cardinality(Terminators(reader))
                            + (IF ContentRemains THEN 1 ELSE 0)
    /\ (spc = "scan" /\ logger # "nil") =>
            /\ Len(executed) = Cardinality(Terminators(SubSeq(reader, 1, scanned)))
            /\ step = Len(executed)
    /\ \A i \in 1..Len(executed) :
            (i <= Cardinality(Terminators(reader)) /\ Split(reader)[i] = <<>>)
                => executed[i].text = <<>>

\* C30 happens: the stream ";", ";", "" has two lines ";" with nothing before them
\* and an empty line left at its end; the empty text was executed twice and
\* nothing after.
C30_Witness ==
    /\ StreamReturned
    /\ reader = <<Terminator, Terminator, <<>>>>
    /\ acc = <<<<>>>>
    /\ executed = <<[text |-> <<>>, ok |-> TRUE], [text |-> <<>>, ok |-> TRUE]>>

(***************************************************************************)
(* C31. Run leaves the configuration as it is.                             *)
(***************************************************************************)
\* The number of elements of s that are k.
Count(s, k) == Cardinality({i \in 1..Len(s) : s[i] = k})

\* s and t hold the same elements, each as often.
SameElements(s, t) == Len(s) = Len(t) /\ \A k \in Keys : Count(s, k) = Count(t, k)

\* C31: no step of a Run changes the dialect, the table name or the logger of the
\* Morpher, and every step leaves in Migrations the same elements, each as often
\* as before, in whatever order.
C31_ConfigurationIntact ==
    [][~Returned =>
        /\ Dialect' = Dialect
        /\ TableName' = TableName
        /\ Log' = Log
        /\ SameElements(Migrations', Migrations)]_vars

\* C31 happens: a Run that reordered Migrations has applied them and returned nil.
C31_Witness ==
    /\ RunReturned /\ err = <<>>
    /\ reordered
    /\ Len(begun) = Len(Migrations)

(***************************************************************************)
(* C32. migrationOrder.                                                    *)
(***************************************************************************)
\* a comes before b in the lexicographic order of strings.
RECURSIVE LexLess(_, _)
LexLess(a, b) ==
    IF b = <<>> THEN FALSE
    ELSE IF a = <<>> THEN TRUE
    ELSE IF Head(a) # Head(b) THEN Head(a) < Head(b)
    ELSE LexLess(Tail(a), Tail(b))

\* migrationOrder was called.
Compared == cmp.mn # 2

\* C32: migrationOrder(m, n) is -1, 0 or 1, exactly when the key of m is less
\* than, equal to or greater than the key of n in the lexicographic order;
\* migrationOrder(m, n) = -migrationOrder(n, m); and the order is transitive:
\* with m not after n and n not after p, m is not after p.
C32_MigrationOrder ==
    Compared =>
        /\ cmp.mn \in {-1, 0, 1}
        /\ cmp.mn = -1 <=> LexLess(cmp.m, cmp.n)
        /\ cmp.mn = 0 <=> cmp.m = cmp.n
        /\ cmp.mn = 1 <=> LexLess(cmp.n, cmp.m)
        /\ cmp.mn = -cmp.nm
        /\ (cmp.mn <= 0 /\ cmp.np <= 0) => cmp.mp <= 0

\* C32 happens: "b" was compared with "ab", which is longer and less, and "ab"
\* with its prefix "a".
C32_Witness ==
    /\ Compared
    /\ cmp.m = <<2>> /\ cmp.n = <<1, 2>> /\ cmp.p = <<1>>
    /\ cmp.mn = 1 /\ cmp.nm = -1 /\ cmp.np = 1 /\ cmp.mp = 1

(***************************************************************************)
(* C34. What checkAppliedMigrations accepts.                               *)
(***************************************************************************)
\* checkAppliedMigrations was called, with a non-empty history, and has returned.
CheckerReturned == Checked /\ pc # "panic"

\* checkAppliedMigrations returned no error.
CheckerPassed == CheckerReturned /\ ~(RunReturned /\ err \in CheckErrors)

\* The applied history is the first Len(appliedMigrations) configured keys.
AppliedIsPrefix ==
    /\ Len(appliedMigrations) <= Len(Migrations)
    /\ \A i \in 1..Len(appliedMigrations) : appliedMigrations[i] = Migrations[i]

\* C34: when checkAppliedMigrations has returned for a non-empty applied history
\* (the configured set is non-empty and by then sorted ascending), it returned no
\* error if and only if the history is exactly the first Len(appliedMigrations)
\* keys of the sorted configured migrations.
C34_CheckerCharacterisation ==
    CheckerReturned =>
        /\ Migrations # <<>>
        /\ Ascending(Migrations)
        /\ CheckerPassed <=> AppliedIsPrefix

\* C34 happens: the checker accepted a history shorter than the configured set,
\* which the Run had to sort first.
C34_Witness ==
    /\ CheckerPassed
    /\ reordered
    /\ Len(appliedMigrations) < Len(Migrations)

\* C34 happens on the other side as well: a history with the right greatest key
\* and the wrong first one was rejected.
C34_Rejected ==
    /\ CheckerReturned /\ ~CheckerPassed
    /\ Len(appliedMigrations) = Len(Migrations)
    /\ appliedMigrations[Len(appliedMigrations)] = Migrations[Len(Migrations)]

(***************************************************************************)
(* C35. What a successful Run leaves in the bookkeeping table.             *)
(***************************************************************************)
\* The Run returned no error.
RunSucceeded == RunReturned /\ err = <<>>

\* The history, in the order of application, is the list of the configured keys,
\* which is in ascending order.
HistoryIsSortedKeys == rows = Migrations /\ Ascending(Migrations)

\* C35 as stated: whenever Run returns no error, the history in application order
\* is the ascending list of the keys of all configured migrations.
C35_SuccessAnyKeys == RunSucceeded => HistoryIsSortedKeys

\* C35: whenever Run returns no error for a configuration whose keys are non-empty
\* and pairwise distinct, the history in application order is the ascending list
\* of the keys of all configured migrations.
C35_Success ==
    (RunSucceeded /\ NonEmptyKeys(Migrations) /\ DistinctKeys(Migrations))
        => HistoryIsSortedKeys

\* C35 happens: a Run that found one migration applied, sorted its two migrations
\* and applied the other one returned no error.
C35_Witness ==
    /\ RunSucceeded
    /\ NonEmptyKeys(Migrations) /\ DistinctKeys(Migrations)
    /\ reordered
    /\ Len(appliedMigrations) = 1
    /\ Len(begun) = 1

(***************************************************************************)
(* C36. A sorted history stays sorted.                                     *)
(***************************************************************************)
\* A Run was called and no other client has written since.
InRun == pc # "idle"

\* C36: if the history was empty or ascending by identifier when the Run was
\* called, it is ascending during and after the Run, whatever the outcome, and the
\* Run does not fail with ErrMigrationsUnsorted.
C36_SortedHistoryPreserved ==
    (InRun /\ Ascending(rows0)) =>
        /\ Ascending(rows)
        /\ ~(RunReturned /\ err = <<"ErrMigrationsUnsorted">>)

\* C36 happens: a Run on an ascending history sorted its migrations, registered
\* one of them and failed.
C36_Witness ==
    /\ RunReturned /\ err # <<>>
    /\ Ascending(rows0)
    /\ reordered
    /\ Len(rows) > Len(rows0)

(***************************************************************************)
(* C37. No migration is executed for a registered key.                     *)
(***************************************************************************)
\* Migrate is being invoked, for the migration of the open transaction.
MigrateInvoked == pc = "migrate"

\* The key Migrate is invoked for has a row in the bookkeeping table.
KeyRegistered == tx.key \in Range(rows)

\* C37 as stated: Migrate is never invoked for a migration whose key is registered
\* at the moment of the invocation.
C37_NoReExecutionAnyKeys == MigrateInvoked => ~KeyRegistered

\* C37: for a configuration whose migration keys are pairwise distinct, Migrate is
\* never invoked for a migration whose key is registered at the moment of the
\* invocation, keys registered earlier in the same Run included.
C37_NoReExecution == (MigrateInvoked /\ DistinctKeys(Migrations)) => ~KeyRegistered

\* C37 happens: Migrate is invoked in a Run that has sorted its migrations and
\* registered another key before.
C37_Witness ==
    /\ MigrateInvoked
    /\ DistinctKeys(Migrations)
    /\ reordered
    /\ Len(rows) > Len(rows0)

(***************************************************************************)
(* C38. The first line of an executed batch.                               *)
(***************************************************************************)
\* The text begins with the comment marker, which its first line then does.
BeginsWithComment(text) == HasPrefix(text, CommentMarker)

\* C38: no batch executed by applyStepsStream has a line beginning with "--" as
\* its first line.
C38_NoBatchStartsWithComment ==
    \A i \in 1..Len(executed) : ~BeginsWithComment(executed[i].text)

(***************************************************************************)
(* C33. Termination of Run.                                                *)
(***************************************************************************)
\* A called Run has begun at most one transaction per configured migration.
BegunAtMostOnce == Len(begun) <= Len(Migrations)

\* C33: every Run that is called reaches Done or an error state, that is, it
\* returns nil or an error, and it has never begun more transactions than there
\* are configured migrations.
C33_Termination == (~Returned ~> RunReturned) /\ [](~Returned \/ RunReturned => BegunAtMostOnce)

\* A Run of a Morpher that has a logger returns, and no Run begins more
\* transactions than there are configured migrations.
TerminationWithLogger ==
    /\ (~Returned /\ Log # "nil") ~> RunReturned
    /\ [](~Returned \/ RunReturned => BegunAtMostOnce)

(***************************************************************************)
(* C39. Two Runs of the same migrations at once.                           *)
(***************************************************************************)
\* Run r has begun the migration of key k and the other Run has committed k.
LostRace(r, k) ==
    /\ k \in Range(runners[r].begun)
    /\ \E i \in 1..Len(history) : history[i].id = k /\ history[i].by = Other(r)

\* Run r fails on the migration of key k and rolls back: k is the last migration
\* it has begun, it does not get to the Commit, nothing of its transaction is
\* committed, and when it has returned, it has returned an error with no
\* transaction left open.
FailsOn(r, k) ==
    /\ runners[r].begun[Len(runners[r].begun)] = k
    /\ runners[r].pc \in {"migrate", "register", "rollback", "done"}
    /\ [key |-> k, by |-> r] \notin visible
    /\ runners[r].pc = "done" => runners[r].err # <<>> /\ ~runners[r].tx.active

\* C39: when two Runs with the same migrations interleave on a database that
\* keeps identifiers unique and isolates transactions, no identifier is registered
\* twice, every committed effect of a migration has its identifier registered, the
\* history is ascending, and a Run that loses the race on a migration fails on it
\* and rolls back.
C39_TwoRuns ==
    /\ \A i, j \in 1..Len(history) : i # j => history[i].id # history[j].id
    /\ \A e \in visible : e.key \in Range(Ids(history))
    /\ Ascending(Ids(history))
    /\ \A r \in Runners : \A k \in Keys : LostRace(r, k) => FailsOn(r, k)

\* C39 happens: the second Run found the first migration applied by the first Run,
\* began the second migration as the first Run did, lost the race and returned the
\* error of its RegisterMigration; the first Run returned nil.
C39_Witness ==
    /\ Len(history) = 2
    /\ runners[1].pc = "done" /\ runners[1].err = <<>>
    /\ runners[2].pc = "done" /\ runners[2].err = <<"register">>
    /\ runners[2].appliedMigrations = <<history[1].id>>
    /\ LostRace(2, history[2].id)

==========================================================================
